---- MODULE Spec2Model ----
(***************************************************************************)
(* Model of the landing-stats enrichment scripts:                          *)
(*   scripts/bulk_ip_geolocation.py        ("geo")                         *)
(*   scripts/bulk_normalize_user_agents.py ("ua")                          *)
(*   scripts/populate_ip_geolocation.py    ("pop")                         *)
(* One behaviour is one invocation of one script (and, after a successful  *)
(* exit, one re-invocation with the same arguments).  The store is the     *)
(* committed content of the two tables; a connection sees its own          *)
(* uncommitted writes in `work`.                                           *)
(***************************************************************************)
EXTENDS Integers, Sequences, FiniteSets, TLC

\* ---------------------------------------------------------------- bounds
NumRows == 2
MaxLimit == 1
\* --batch-size values tried by the row-by-row script.
BatchSizes == {1, 2}
BatchLen == 5

\* Interrupts the bare excepts catch, over the invocations of one behaviour.
MaxCaught == 1

\* ---------------------------------------------------------------- values
\* SQL NULL and Python None (psycopg2 and the csv module map one to the other).
NULL == "NULL"

Ids == 1 .. NumRows

PAGE_VIEWS == "metrics_page_views"

EVENTS == "metrics_events"

Tables == {PAGE_VIEWS, EVENTS}

\* Python truthiness of an optional string: None and '' are falsy.
Truthy(s) == s # NULL /\ s # ""

\* Python `x or ''`.
OrEmpty(s) == IF Truthy(s) THEN s ELSE ""

\* SQL COALESCE(a, b) and NULLIF(a, b).
COALESCE(a, b) == IF a # NULL THEN a ELSE b

NULLIF(a, b) == IF a # NULL /\ a = b THEN NULL ELSE a

\* ORDER BY timestamp: the fixture tables carry timestamp = id.
Timestamp(id) == id

Min(a, b) == IF a <= b THEN a ELSE b

\* An optional integer argument (argparse gives None when the flag is absent)
\* is <<>> for None and <<n>> for n.
NoLimit == <<>>

\* Python `if limit`: None and 0 are falsy.
LimitSet(lim) == lim # NoLimit /\ lim[1] # 0

\* ------------------------------------------------------------ table rows
BlankRow ==
    [ip |-> NULL, country |-> NULL,
     user_agent |-> NULL, referrer |-> NULL, domain |-> NULL,
     browser_normalized |-> NULL, os_normalized |-> NULL,
     device_normalized |-> NULL, referrer_normalized |-> NULL,
     domain_normalized |-> NULL, is_bot |-> NULL]

BlankTable == [id \in Ids |-> BlankRow]

\* ------------------------------------------------- geolocation provider
UNKNOWN_COUNTRY == "ZZ"

\* The strings of the fixture that ipaddress.ip_address() accepts.
ValidIPs == {"8.8.8.8", "10.0.0.1", "192.0.2.1", "203.0.113.9"}

\* The fixture reference dataset behind country_reader.country(ip).
ReaderCountry(ip) ==
    CASE ip = "8.8.8.8"     -> [kind |-> "ok", iso_code |-> "US"]
      [] ip = "192.0.2.1"   -> [kind |-> "ok", iso_code |-> NULL]
      [] ip = "10.0.0.1"    -> [kind |-> "AddressNotFoundError", iso_code |-> NULL]
      [] OTHER              -> [kind |-> "Exception", iso_code |-> NULL]

is_valid_ip(ip_str) ==
    IF ~Truthy(ip_str) THEN FALSE ELSE ip_str \in ValidIPs

\* Variant: no sentinel, an unresolved address has no country.
lookup_ip_location_or_none(ip_str) ==
    IF ~is_valid_ip(ip_str)
    THEN NULL
    ELSE LET response == ReaderCountry(ip_str) IN
         IF response.kind = "ok" THEN response.iso_code ELSE NULL

\* Variant: the dataset's code is returned as it is, present or not.
lookup_ip_location_raw_code(ip_str) ==
    IF ~is_valid_ip(ip_str)
    THEN UNKNOWN_COUNTRY
    ELSE LET response == ReaderCountry(ip_str) IN
         IF response.kind = "ok" THEN response.iso_code ELSE UNKNOWN_COUNTRY

lookup_ip_location(ip_str) ==
    IF ~is_valid_ip(ip_str)
    THEN UNKNOWN_COUNTRY
    ELSE LET response == ReaderCountry(ip_str) IN
         IF response.kind = "ok"
         THEN (IF Truthy(response.iso_code) THEN response.iso_code
               ELSE UNKNOWN_COUNTRY)
         ELSE UNKNOWN_COUNTRY

\* -------------------------------------------------- user-agent provider
\* The bot-signature sources and what the import of the module loaded from them.
VARIABLES
    bots_yml,               \* resources/matomo/bots.yml as the import finds it
    custom_bots_yml,        \* resources/custom_bots.yml as the import finds it
    matomo_bot_patterns,    \* MATOMO_BOT_PATTERNS once loaded
    custom_bot_signatures   \* CUSTOM_BOT_SIGNATURES once loaded

\* Fixture user agents.
UA_CURL == "curl/8.4.0"

UA_GOOGLEBOT == "Mozilla/5.0 (compatible; Googlebot/2.1)"

UA_IPHONE == "Mozilla/5.0 (iPhone; CPU iPhone OS 17_0) Mobile Safari/604.1"

UA_IPAD == "Mozilla/5.0 (iPad; CPU OS 17_0) Safari/604.1"

UA_CHROME == "Mozilla/5.0 (Windows NT 10.0) Chrome/120.0 Safari/537.36"

UA_MYSTERY == "Mystery/1.0"

UA_BROKEN == "Broken\\Agent"

UA_BROKEN_BOT == "curl\\bingbot"

UserAgents ==
    {UA_CURL, UA_GOOGLEBOT, UA_IPHONE, UA_IPAD, UA_CHROME, UA_MYSTERY, UA_BROKEN,
     UA_BROKEN_BOT}

\* The fixture words that occur in user_agent_string.lower().
LowerWords(ua) ==
    CASE ua = UA_CURL      -> {"curl"}
      [] ua = UA_GOOGLEBOT -> {"mozilla", "compatible", "googlebot", "bot"}
      [] ua = UA_IPHONE    -> {"mozilla", "iphone", "phone", "mobile", "safari"}
      [] ua = UA_IPAD      -> {"mozilla", "ipad", "safari"}
      [] ua = UA_CHROME    -> {"mozilla", "windows", "chrome", "safari"}
      [] ua = UA_MYSTERY   -> {"mystery"}
      [] ua = UA_BROKEN    -> {"broken", "agent"}
      [] ua = UA_BROKEN_BOT -> {"curl", "bingbot", "bot"}
      [] OTHER             -> {}

\* resources/custom_bots.yml of the fixture (lower-cased literal signatures).
CUSTOM_BOT_SIGNATURES == {"curl", "python-requests"}

\* resources/matomo/bots.yml of the fixture (patterns, compiled IGNORECASE).
MATOMO_BOT_PATTERNS == {"googlebot", "bingbot"}

\* `signature in ua_lower`.
SignatureIn(signature, ua) == signature \in LowerWords(ua)

\* `pattern.search(user_agent_string)` with re.IGNORECASE.
PatternSearch(pattern, ua) == pattern \in LowerWords(ua)

\* Variant: only the literal signatures are consulted.
is_bot_signatures_only(user_agent_string) ==
    IF ~Truthy(user_agent_string) THEN FALSE
    ELSE \E signature \in custom_bot_signatures :
             SignatureIn(signature, user_agent_string)

is_bot(user_agent_string) ==
    IF ~Truthy(user_agent_string) THEN FALSE
    ELSE IF \E signature \in custom_bot_signatures :
                SignatureIn(signature, user_agent_string) THEN TRUE
    ELSE IF \E pattern \in matomo_bot_patterns :
                PatternSearch(pattern, user_agent_string) THEN TRUE
    ELSE FALSE

\* user_agent_parser.Parse of the fixture: the three family strings, or a raise.
ParseUA(ua) ==
    CASE ua = UA_IPHONE  -> [kind |-> "ok", browser |-> "Mobile Safari",
                             os |-> "iOS", device |-> "iPhone"]
      [] ua = UA_IPAD    -> [kind |-> "ok", browser |-> "Mobile Safari",
                             os |-> "iOS", device |-> "iPad"]
      [] ua = UA_CHROME  -> [kind |-> "ok", browser |-> "Chrome",
                             os |-> "Windows", device |-> "Other"]
      [] ua = UA_MYSTERY -> [kind |-> "ok", browser |-> "Other",
                             os |-> "Other", device |-> "Other"]
      [] ua = UA_CURL    -> [kind |-> "ok", browser |-> "curl",
                             os |-> "Other", device |-> "Other"]
      [] ua = UA_GOOGLEBOT -> [kind |-> "ok", browser |-> "Googlebot",
                             os |-> "Other", device |-> "Spider"]
      [] OTHER           -> [kind |-> "Exception", browser |-> NULL,
                             os |-> NULL, device |-> NULL]

ChromeVariants ==
    {"Chrome Mobile", "Chrome Mobile iOS", "Chrome Mobile WebView", "Google", "Chromium"}

SafariVariants == {"Mobile Safari", "Safari Mobile", "Mobile Safari UI/WKWebView"}

OperaVariants == {"Opera Mini", "Opera Mobile"}

ConsolidateBrowser(browser) ==
    LET b1 == IF browser \in ChromeVariants THEN "Chrome" ELSE browser
        b2 == IF b1 \in SafariVariants THEN "Safari" ELSE b1
    IN  IF b2 \in OperaVariants THEN "Opera" ELSE b2

DeviceClass(ua) ==
    IF "mobile" \in LowerWords(ua) \/ "phone" \in LowerWords(ua) THEN "Mobile"
    ELSE IF "tablet" \in LowerWords(ua) \/ "ipad" \in LowerWords(ua) THEN "Tablet"
    ELSE "Desktop"

\* (browser, os, device, is_bot)
UAResult(b, o, d, bot) == [browser |-> b, os |-> o, device |-> d, is_bot |-> bot]

\* Variant: the parser runs before the bot check, and a bot keeps what it parsed.
normalize_user_agent_parse_first(user_agent_string) ==
    IF ~Truthy(user_agent_string) THEN UAResult(NULL, NULL, NULL, FALSE)
    ELSE LET parsed_ua == ParseUA(user_agent_string) IN
         IF parsed_ua.kind # "ok" THEN UAResult(NULL, NULL, NULL, FALSE)
         ELSE LET browser == IF Truthy(parsed_ua.browser) /\ parsed_ua.browser # "Other"
                             THEN parsed_ua.browser ELSE NULL
                  os_name == IF Truthy(parsed_ua.os) /\ parsed_ua.os # "Other"
                             THEN parsed_ua.os ELSE NULL
              IN  UAResult(ConsolidateBrowser(browser), os_name,
                           DeviceClass(user_agent_string), is_bot(user_agent_string))

\* Variant: the device is the parser's device family.
normalize_user_agent_device_family(user_agent_string) ==
    IF ~Truthy(user_agent_string) THEN UAResult(NULL, NULL, NULL, FALSE)
    ELSE IF is_bot(user_agent_string) THEN UAResult(NULL, NULL, NULL, TRUE)
    ELSE LET parsed_ua == ParseUA(user_agent_string) IN
         IF parsed_ua.kind # "ok" THEN UAResult(NULL, NULL, NULL, FALSE)
         ELSE LET browser == IF Truthy(parsed_ua.browser) /\ parsed_ua.browser # "Other"
                             THEN parsed_ua.browser ELSE NULL
                  os_name == IF Truthy(parsed_ua.os) /\ parsed_ua.os # "Other"
                             THEN parsed_ua.os ELSE NULL
              IN  UAResult(ConsolidateBrowser(browser), os_name,
                           parsed_ua.device, FALSE)

normalize_user_agent(user_agent_string) ==
    IF ~Truthy(user_agent_string) THEN UAResult(NULL, NULL, NULL, FALSE)
    ELSE IF is_bot(user_agent_string) THEN UAResult(NULL, NULL, NULL, TRUE)
    ELSE LET parsed_ua == ParseUA(user_agent_string) IN
         IF parsed_ua.kind # "ok" THEN UAResult(NULL, NULL, NULL, FALSE)
         ELSE LET browser == IF Truthy(parsed_ua.browser) /\ parsed_ua.browser # "Other"
                             THEN parsed_ua.browser ELSE NULL
                  os_name == IF Truthy(parsed_ua.os) /\ parsed_ua.os # "Other"
                             THEN parsed_ua.os ELSE NULL
              IN  UAResult(ConsolidateBrowser(browser), os_name,
                           DeviceClass(user_agent_string), FALSE)

\* ------------------------------------------- referrer / domain normalizer
REF_EXAMPLE == "https://www.Example.com/page?x=1"

REF_LOCALHOST == "http://localhost:3000/dev"

REF_DROPCATCH == "https://www.dropcatch.com/a"

DOM_EXAMPLE == " WWW.Example.com/path "

DOM_INTRANET == "intranet"

DOM_BLANK == " "

\* tld.get_fld(url, fail_silently=True) of the fixture: the registrable domain,
\* or None when the URL has none.
get_fld(url) ==
    CASE url = REF_EXAMPLE             -> "Example.com"
      [] url = REF_DROPCATCH           -> "dropcatch.com"
      [] url = "http://www.example.com" -> "example.com"
      [] OTHER                         -> NULL

ExcludedReferrers == {"localhost", "127.0.0.1", "dropcatch.com"}

\* str.lower() on the fixture's domains.
Lower(s) ==
    CASE s = "Example.com" -> "example.com"
      [] s = "Python-Requests" -> "python-requests"
      [] OTHER -> s

normalize_referrer(referrer) ==
    IF ~Truthy(referrer) THEN NULL
    ELSE LET domain == get_fld(referrer) IN
         IF Truthy(domain) /\ domain \notin ExcludedReferrers
         THEN Lower(domain) ELSE NULL

\* strip().lower(), scheme prefix removed, cut at the first '/', '?' and '#'.
DomainHost(domain) ==
    CASE domain = DOM_EXAMPLE  -> "www.example.com"
      [] domain = DOM_INTRANET -> "intranet"
      [] domain = DOM_BLANK    -> ""
      [] OTHER                 -> domain

\* 'http://' + domain
HttpUrl(host) == "http://" \o host

normalize_domain(domain) ==
    IF ~Truthy(domain) THEN NULL
    ELSE LET host == DomainHost(domain)
             normalized == get_fld(HttpUrl(host))
         IN  IF Truthy(normalized) THEN Lower(normalized) ELSE host

\* ------------------------------------------------------------------ state
VARIABLES
    script,         \* which script this invocation runs
    limit,          \* --limit / --max-records
    dry_run,        \* --dry-run
    force,          \* --force
    batch_size,     \* --batch-size (populate_ip_geolocation)
    geoip_present,  \* resources/geoip/GeoLite2-Country.mmdb exists
    columns,        \* information_schema: the columns of each table ({}: no table)
    live,           \* committed content of the tables
    work,           \* the tables as the open connection's transaction sees them
    conn,           \* "none" | "open" | "closed"
    txn_aborted,    \* the open transaction has a failed statement
    temp,           \* the connection's temporary table
    export_file,    \* per table, the export file in /tmp: the extracted records
                    \* (populate_ip_geolocation: the fetched records, in memory)
    processed_file, \* per table, the processed file in /tmp: one row per
                    \* transformed record (populate_ip_geolocation: in memory)
    pc,             \* position of the driver
    tbl,            \* table being processed
    batch_i,        \* start index of the current batch (populate_ip_geolocation)
    exit_code,      \* "running" | "0" | "1" | "130"
    run,            \* 1: first invocation, 2: the re-invocation
    pre,            \* the tables when this invocation started
    prev,           \* what the first invocation extracted and caught
    failure,        \* why the invocation ended abnormally ("none": it did not)
    caught,         \* KeyboardInterrupts a bare except of this invocation caught
    n_available,    \* per table: rows matching the inclusion predicate at extraction
    n_extracted,    \* per table: records extracted by this invocation
    n_processed,    \* per table: records transformed by this invocation
    log             \* statements this invocation executed

config ==
    <<script, limit, dry_run, force, batch_size, geoip_present, columns,
      bots_yml, custom_bots_yml, matomo_bot_patterns, custom_bot_signatures>>

session == <<conn, work, txn_aborted, temp>>

files == <<export_file, processed_file>>

counters == <<n_available, n_extracted, n_processed>>

history == <<run, pre, prev, failure, caught>>

vars ==
    <<script, limit, dry_run, force, batch_size, geoip_present, columns,
      bots_yml, custom_bots_yml, matomo_bot_patterns, custom_bot_signatures,
      live, work, conn, txn_aborted, temp, export_file, processed_file, pc, tbl, batch_i,
      exit_code, run, pre, prev, failure, caught, n_available, n_extracted,
      n_processed, log>>

NoTemp == [exists |-> FALSE, rows |-> <<>>]

ZeroCount == [t \in Tables |-> 0]

ZeroLog ==
    [connects |-> 0, creates |-> 0, copies |-> 0,
     updates |-> ZeroCount, commits |-> ZeroCount]

AllColumns ==
    {"id", "timestamp", "ip", "country", "user_agent", "referrer", "domain",
     "browser_normalized", "os_normalized", "device_normalized",
     "referrer_normalized", "domain_normalized", "is_bot"}

\* ------------------------------------------------------- store operations
\* The ids of S, most recent first (ORDER BY timestamp DESC).
RECURSIVE OrderByTimestampDesc(_)
OrderByTimestampDesc(S) ==
    IF S = {} THEN <<>>
    ELSE LET m == CHOOSE x \in S : \A y \in S : Timestamp(y) <= Timestamp(x)
         IN  <<m>> \o OrderByTimestampDesc(S \ {m})

\* Variant: the ceiling is off by one.
ApplyLimitPlusOne(seq, lim) ==
    IF LimitSet(lim) THEN SubSeq(seq, 1, Min(lim[1] + 1, Len(seq))) ELSE seq

\* Variant: `LIMIT n` is part of the query whenever a limit is given, 0 included.
ApplyLimitWhenGiven(seq, lim) ==
    IF lim # NoLimit THEN SubSeq(seq, 1, Min(lim[1], Len(seq))) ELSE seq

\* `LIMIT n` is part of the query only when `if limit` holds.
ApplyLimit(seq, lim) ==
    IF LimitSet(lim) THEN SubSeq(seq, 1, Min(lim[1], Len(seq))) ELSE seq

\* A statement that names a column the table lacks (or a table that is absent)
\* raises.
StatementOk(t, referenced) == referenced \subseteq columns[t]

SeqIds(rows) == {rows[i].id : i \in 1 .. Len(rows)}

\* The primary key of the temporary table rejects a repeated id.
UniqueIds(rows) ==
    \A i, j \in 1 .. Len(rows) : rows[i].id = rows[j].id => i = j

\* Variant: the load has no null marker, an empty field is loaded as ''.
CopyFieldKeepingEmpty(v) == v

\* copy_from(..., null=''): an empty field is loaded as NULL.
CopyField(s) == IF s = "" THEN NULL ELSE s

\* The staged row of id in the temporary table.
Staged(rows, id) == rows[CHOOSE i \in 1 .. Len(rows) : rows[i].id = id]

\* -------------------------------------------------- bulk_ip_geolocation
\* Variant: the stored country is not consulted.
GeoWhereAnyCountry(row, forced) == row.ip # NULL

\* WHERE clause of the export.
GeoWhere(row, forced) ==
    IF forced THEN row.ip # NULL
    ELSE row.ip # NULL /\ row.country = NULL

GeoCandidates(tab, forced) == {id \in Ids : GeoWhere(tab[id], forced)}

GeoExport(tab, forced, lim) ==
    LET ids == ApplyLimit(OrderByTimestampDesc(GeoCandidates(tab, forced)), lim)
    IN  [k \in 1 .. Len(ids) |-> [id |-> ids[k], ip |-> tab[ids[k]].ip]]

\* One row of the processed file: [record_id, country or ''].
GeoProcessRow(rec) ==
    [id |-> rec.id, country |-> OrEmpty(lookup_ip_location(rec.ip))]

\* COPY FROM of the processed file into temp_ip_geolocation.
GeoCopyRows(file) ==
    [k \in 1 .. Len(file) |->
        [id |-> file[k].id, country |-> CopyField(file[k].country)]]

\* SET country = COALESCE(NULLIF(t.country, ''), m.country)
GeoSetRow(m, t) == [m EXCEPT !.country = COALESCE(NULLIF(t.country, ""), m.country)]

\* Variant: only the first staged row is applied.
GeoMergeFirstRow(tab, rows) ==
    [id \in Ids |->
        IF Len(rows) > 0 /\ id = rows[1].id THEN GeoSetRow(tab[id], rows[1])
        ELSE tab[id]]

\* UPDATE metrics_page_views AS m SET ... FROM temp_ip_geolocation AS t
\* WHERE m.id = t.id
GeoMerge(tab, rows) ==
    [id \in Ids |->
        IF id \in SeqIds(rows) THEN GeoSetRow(tab[id], Staged(rows, id))
        ELSE tab[id]]

GeoExtractColumns == {"id", "ip", "timestamp"}

GeoUpdateColumns == {"id", "country"}

\* Variant: the run ends without closing its connection.
TerminateLeavingOpen(code, why) ==
    /\ pc' = "done"
    /\ exit_code' = code
    /\ failure' = why
    /\ conn' = conn
    /\ work' = live
    /\ txn_aborted' = FALSE
    /\ temp' = NoTemp
    /\ export_file' \in
         IF script = "pop" THEN {[t \in Tables |-> <<>>]}
         ELSE IF pc = "extract"
         THEN {[export_file EXCEPT ![tbl] = <<>>]}
                  \cup (IF why \in {"database", "interrupt"} THEN {export_file} ELSE {})
         ELSE {export_file}
    /\ processed_file' \in
         IF script = "pop" THEN {[t \in Tables |-> <<>>]}
         ELSE IF pc = "transform" /\ n_processed[tbl] = 0
         THEN {[processed_file EXCEPT ![tbl] = <<>>]}
                  \cup (IF why = "interrupt" THEN {processed_file} ELSE {})
         ELSE {processed_file}
    /\ batch_i' = 0
    /\ tbl' = PAGE_VIEWS
    /\ UNCHANGED <<config, live, run, pre, prev, caught>>

\* The process ends: every local is gone, an open connection is closed and its
\* uncommitted work with it.  The files in /tmp are not removed: they keep the
\* rows written so far.  The extraction step opens the export file for writing
\* at its COPY TO: a run the COPY ends (no row, or a failing statement) leaves
\* it without rows, while an interrupt or a lost connection in that step comes
\* before the open (the file of the previous run stays) or after it.  The
\* processed file is opened for writing before the first record is looked at:
\* a run ending before a row is written leaves it without rows, or, interrupted
\* before the open, as the previous run left it.  What populate_ip_geolocation
\* fetched and computed was in memory and is gone.  The interrupt that ends a
\* run may come in a loop iteration whose bare excepts have just caught
\* `swallowed` earlier ones: the loop is then past the open of the processed
\* file, and the record at hand is not written.
TerminateAfter(code, why, swallowed) ==
    /\ pc' = "done"
    /\ exit_code' = code
    /\ failure' = why
    /\ conn' = IF conn = "none" THEN "none" ELSE "closed"
    /\ work' = live
    /\ txn_aborted' = FALSE
    /\ temp' = NoTemp
    /\ export_file' \in
         IF script = "pop" THEN {[t \in Tables |-> <<>>]}
         ELSE IF pc = "extract"
         THEN {[export_file EXCEPT ![tbl] = <<>>]}
                  \cup (IF why \in {"database", "interrupt"} THEN {export_file} ELSE {})
         ELSE {export_file}
    /\ processed_file' \in
         IF script = "pop" THEN {[t \in Tables |-> <<>>]}
         ELSE IF pc = "transform" /\ n_processed[tbl] = 0
         THEN {[processed_file EXCEPT ![tbl] = <<>>]}
                  \cup (IF why = "interrupt" /\ swallowed = 0
                        THEN {processed_file} ELSE {})
         ELSE {processed_file}
    /\ batch_i' = 0
    /\ tbl' = PAGE_VIEWS
    /\ caught' = caught + swallowed
    /\ UNCHANGED <<config, live, run, pre, prev>>

Terminate(code, why) == TerminateAfter(code, why, 0)

\* ------------------------------------------------ bot-signature loading
\* An entry of bots.yml without a 'regex' key; a regex re.compile rejects is "(".
NO_REGEX == "<no regex>"

RegexCompiles(regex) == regex # "("

\* An entry of bot_signatures that is not a string.
NON_STRING == "<42>"

\* bots.yml: missing, not openable, not YAML, an empty document, a list of
\* scalars that are not strings, or a list of entries.
MatomoFiles ==
    {[kind |-> k, entries |-> {}] :
        k \in {"absent", "unreadable", "bad_yaml", "empty", "scalars"}}
    \cup {[kind |-> "list", entries |-> e] :
            e \in SUBSET {"googlebot", "bingbot", "(", NO_REGEX}}

\* custom_bots.yml: missing, not openable, not YAML, an empty document, a
\* mapping without bot_signatures, one with bot_signatures null, or one with a
\* list of signatures.
CustomFiles ==
    {[kind |-> k, entries |-> {}] :
        k \in {"absent", "unreadable", "bad_yaml", "empty", "no_key", "null_key"}}
    \cup {[kind |-> "mapping", entries |-> e] :
            e \in SUBSET {"curl", "Python-Requests", NON_STRING}}

\* Variant: without the file the corpus is empty.
load_matomo_bot_patterns_no_fallback(file) ==
    IF file.kind = "absent" THEN {}
    ELSE IF file.kind \in {"unreadable", "bad_yaml", "empty", "scalars"} THEN {"bot"}
    ELSE {bot \in file.entries : bot # NO_REGEX /\ RegexCompiles(bot)}

\* No path exists: the fallback. open, yaml.safe_load or the loop raises: the
\* fallback. Otherwise the regexes that compile, of the entries that have one.
load_matomo_bot_patterns(file) ==
    IF file.kind = "absent" THEN {"bot"}
    ELSE IF file.kind \in {"unreadable", "bad_yaml", "empty", "scalars"} THEN {"bot"}
    ELSE {bot \in file.entries : bot # NO_REGEX /\ RegexCompiles(bot)}

\* No path exists: the fallback. open, yaml.safe_load, .get, the iteration or
\* .lower() raises: the fallback. Otherwise custom_data.get('bot_signatures', [])
\* lower-cased.
load_custom_bot_signatures(file) ==
    IF file.kind = "absent" THEN {"bot"}
    ELSE IF file.kind \in {"unreadable", "bad_yaml", "empty", "null_key"} THEN {"bot"}
    ELSE IF file.kind = "no_key" THEN {}
    ELSE IF NON_STRING \in file.entries THEN {"bot"}
    ELSE {Lower(sig) : sig \in file.entries}

\* MATOMO_BOT_PATTERNS = load_matomo_bot_patterns(), at import.
ImportMatomo ==
    /\ pc = "import_matomo"
    /\ matomo_bot_patterns' = load_matomo_bot_patterns(bots_yml)
    /\ pc' = "import_custom"
    /\ UNCHANGED <<script, limit, dry_run, force, batch_size, geoip_present, columns,
                   bots_yml, custom_bots_yml, custom_bot_signatures, live, session,
                   files, tbl, batch_i, exit_code, history, counters, log>>

\* CUSTOM_BOT_SIGNATURES = load_custom_bot_signatures(), at import; main() follows.
ImportCustom ==
    /\ pc = "import_custom"
    /\ custom_bot_signatures' = load_custom_bot_signatures(custom_bots_yml)
    /\ pc' = "start"
    /\ UNCHANGED <<script, limit, dry_run, force, batch_size, geoip_present, columns,
                   bots_yml, custom_bots_yml, matomo_bot_patterns, live, session,
                   files, tbl, batch_i, exit_code, history, counters, log>>

\* An abnormal end (exit code 1 or 130): the except handlers log the error and
\* return; what the run had counted and executed stays as it was.
Abort(code, why) ==
    /\ Terminate(code, why)
    /\ UNCHANGED <<counters, log>>

\* Variant: the reference dataset is not looked for before connecting.
GeoValidateSkipped ==
    /\ script = "geo" /\ pc = "start"
    /\ pc' = "connect"
    /\ UNCHANGED <<config, live, session, files, tbl, batch_i, exit_code,
                   history, counters, log>>

\* validate_databases(): the reference dataset must exist.
GeoValidate ==
    /\ script = "geo" /\ pc = "start"
    /\ IF geoip_present
       THEN /\ pc' = "connect"
            /\ UNCHANGED <<config, live, session, files, tbl, batch_i, exit_code,
                           history, counters, log>>
       ELSE Abort("1", "dataset")

GeoConnect ==
    /\ script = "geo" /\ pc = "connect"
    /\ conn' = "open"
    /\ work' = live
    /\ pc' = "extract"
    /\ log' = [log EXCEPT !.connects = @ + 1]
    /\ UNCHANGED <<config, live, txn_aborted, temp, files, tbl, batch_i, exit_code,
                   history, counters>>

\* Step 1: COPY (SELECT id, ip ...) TO STDOUT, count, early return on zero,
\* otherwise close the connection before the offline phase.
GeoExtract ==
    /\ script = "geo" /\ pc = "extract"
    /\ LET referenced == GeoExtractColumns \cup (IF force THEN {} ELSE {"country"})
           rows == GeoExport(work[PAGE_VIEWS], force, limit)
       IN  IF ~StatementOk(PAGE_VIEWS, referenced)
           THEN Abort("1", "schema")
           ELSE /\ n_available' =
                     [n_available EXCEPT ![PAGE_VIEWS] =
                         Cardinality(GeoCandidates(work[PAGE_VIEWS], force))]
                /\ n_extracted' = [n_extracted EXCEPT ![PAGE_VIEWS] = Len(rows)]
                /\ UNCHANGED <<n_processed, log>>
                /\ IF Len(rows) = 0
                   THEN Terminate("0", "none")
                   ELSE /\ export_file' = [export_file EXCEPT ![tbl] = rows]
                        /\ conn' = "closed"
                        /\ pc' = "transform"
                        /\ UNCHANGED <<config, live, work, txn_aborted, temp,
                                       processed_file, tbl, batch_i, exit_code, history>>

\* Variant: a record whose address is not a valid IP is counted but produces
\* no row in the processed file.
GeoTransformSkippingInvalid ==
    /\ script = "geo" /\ pc = "transform"
    /\ n_processed[PAGE_VIEWS] < Len(export_file[PAGE_VIEWS])
    /\ LET rec == export_file[PAGE_VIEWS][n_processed[PAGE_VIEWS] + 1]
           written == IF n_processed[PAGE_VIEWS] = 0 THEN <<>>
                      ELSE processed_file[PAGE_VIEWS]
       IN  processed_file' =
             [processed_file EXCEPT ![PAGE_VIEWS] =
                 IF is_valid_ip(rec.ip) THEN Append(written, GeoProcessRow(rec))
                 ELSE written]
    /\ n_processed' = [n_processed EXCEPT ![PAGE_VIEWS] = @ + 1]
    /\ UNCHANGED <<config, live, session, export_file, pc, tbl, batch_i, exit_code,
                   history, n_available, n_extracted, log>>

\* Step 2, one iteration of the loop over the export file.
GeoTransform ==
    /\ script = "geo" /\ pc = "transform"
    /\ n_processed[PAGE_VIEWS] < Len(export_file[PAGE_VIEWS])
    /\ processed_file' =
         [processed_file EXCEPT ![PAGE_VIEWS] =
             Append(IF n_processed[PAGE_VIEWS] = 0 THEN <<>> ELSE @,
                    GeoProcessRow(export_file[PAGE_VIEWS][n_processed[PAGE_VIEWS] + 1]))]
    /\ n_processed' = [n_processed EXCEPT ![PAGE_VIEWS] = @ + 1]
    /\ UNCHANGED <<config, live, session, export_file, pc, tbl, batch_i, exit_code,
                   history, n_available, n_extracted, log>>

GeoDryRunReport ==
    /\ script = "geo" /\ pc = "transform"
    /\ n_processed[PAGE_VIEWS] = Len(export_file[PAGE_VIEWS])
    /\ dry_run
    /\ Terminate("0", "none")
    /\ UNCHANGED <<counters, log>>

\* Variant: the update phase is entered whether or not --dry-run was given.
GeoReconnectInDryRun ==
    /\ script = "geo" /\ pc = "transform"
    /\ n_processed[PAGE_VIEWS] = Len(export_file[PAGE_VIEWS])
    /\ conn' = "open"
    /\ work' = live
    /\ pc' = "create_temp"
    /\ log' = [log EXCEPT !.connects = @ + 1]
    /\ UNCHANGED <<config, live, txn_aborted, temp, files, tbl, batch_i, exit_code,
                   history, counters>>

GeoReconnect ==
    /\ script = "geo" /\ pc = "transform"
    /\ n_processed[PAGE_VIEWS] = Len(export_file[PAGE_VIEWS])
    /\ ~dry_run
    /\ conn' = "open"
    /\ work' = live
    /\ pc' = "create_temp"
    /\ log' = [log EXCEPT !.connects = @ + 1]
    /\ UNCHANGED <<config, live, txn_aborted, temp, files, tbl, batch_i, exit_code,
                   history, counters>>

\* Step 3: CREATE TEMPORARY TABLE temp_ip_geolocation (id BIGINT PRIMARY KEY, ...)
GeoCreateTemp ==
    /\ script = "geo" /\ pc = "create_temp"
    /\ temp' = [exists |-> TRUE, rows |-> <<>>]
    /\ pc' = "copy_from"
    /\ log' = [log EXCEPT !.creates = @ + 1]
    /\ UNCHANGED <<config, live, conn, work, txn_aborted, files, tbl, batch_i,
                   exit_code, history, counters>>

\* Step 4: COPY FROM the processed file.
GeoCopyFrom ==
    /\ script = "geo" /\ pc = "copy_from"
    /\ LET rows == GeoCopyRows(processed_file[PAGE_VIEWS]) IN
       IF ~UniqueIds(rows)
       THEN Abort("1", "load")
       ELSE /\ temp' = [temp EXCEPT !.rows = rows]
            /\ pc' = "update"
            /\ log' = [log EXCEPT !.copies = @ + 1]
            /\ UNCHANGED <<config, live, conn, work, txn_aborted, files, tbl,
                           batch_i, exit_code, history,
                           counters>>

\* Step 5: the bulk UPDATE, inside the connection's transaction.
GeoUpdate ==
    /\ script = "geo" /\ pc = "update"
    /\ IF ~StatementOk(PAGE_VIEWS, GeoUpdateColumns)
       THEN Abort("1", "schema")
       ELSE /\ work' = [work EXCEPT ![PAGE_VIEWS] = GeoMerge(@, temp.rows)]
            /\ pc' = "commit"
            /\ log' = [log EXCEPT !.updates[PAGE_VIEWS] = @ + 1]
            /\ UNCHANGED <<config, live, conn, txn_aborted, temp, files, tbl,
                           batch_i, exit_code, history,
                           counters>>

GeoCommit ==
    /\ script = "geo" /\ pc = "commit"
    /\ live' = work
    /\ pc' = "return"
    /\ log' = [log EXCEPT !.commits[PAGE_VIEWS] = @ + 1]
    /\ UNCHANGED <<config, session, files, tbl, batch_i, exit_code, history, counters>>

\* return True, through the finally block that closes the connection.
GeoReturn ==
    /\ script = "geo" /\ pc = "return"
    /\ Terminate("0", "none")
    /\ UNCHANGED <<counters, log>>

\* Where a database call can raise (connection refused or lost, statement error).
GeoRaisePoints ==
    {"connect", "extract", "create_temp", "copy_from", "update", "commit"}

\* An exception leaves bulk_process through its finally block and is reported by
\* main() as exit code 1.
GeoRaise ==
    /\ script = "geo"
    /\ \/ pc \in GeoRaisePoints
       \/ pc = "transform" /\ n_processed[PAGE_VIEWS] = Len(export_file[PAGE_VIEWS]) /\ ~dry_run
    /\ Abort("1", "database")

\* KeyboardInterrupt at any point of the run: main() returns 130.
GeoInterrupt ==
    /\ script = "geo" /\ pc # "done"
    /\ Abort("130", "interrupt")

\* ----------------------------------------------- populate_ip_geolocation
\* GeoIPUpdater.get_records_to_update: fetchall() of the SELECT.
PopRecords(tab, forced, lim) == GeoExport(tab, forced, lim)

\* Variant: every slice stops one record early.
BatchOneShort(records, i, size) ==
    SubSeq(records, i + 1, Min(i + size - 1, Len(records)))

\* records_to_update[i:i+self.batch_size]
Batch(records, i, size) == SubSeq(records, i + 1, Min(i + size, Len(records)))

PopRequiredColumns == {"id", "ip", "country"}

\* UPDATE {table} SET country = %s WHERE id = %s
PopSetCountry(tab, id, country) == [tab EXCEPT ![id].country = country]

\* GeoIPUpdater.__init__: the reference dataset must exist.
PopInit ==
    /\ script = "pop" /\ pc = "start"
    /\ IF geoip_present
       THEN /\ pc' = "connect"
            /\ UNCHANGED <<config, live, session, files, tbl, batch_i, exit_code,
                           history, counters, log>>
       ELSE Abort("1", "dataset")

\* DatabaseConnection.__enter__
PopConnect ==
    /\ script = "pop" /\ pc = "connect"
    /\ conn' = "open"
    /\ work' = live
    /\ pc' = "validate"
    /\ log' = [log EXCEPT !.connects = @ + 1]
    /\ UNCHANGED <<config, live, txn_aborted, temp, files, tbl, batch_i, exit_code,
                   history, counters>>

\* validate_table: the table and the columns id, ip, country exist.
PopValidate ==
    /\ script = "pop" /\ pc = "validate"
    /\ IF columns[PAGE_VIEWS] # {} /\ PopRequiredColumns \subseteq columns[PAGE_VIEWS]
       THEN /\ pc' = "extract"
            /\ UNCHANGED <<config, live, session, files, tbl, batch_i, exit_code,
                           history, counters, log>>
       ELSE Abort("1", "schema")

PopExtract ==
    /\ script = "pop" /\ pc = "extract"
    /\ LET referenced == GeoExtractColumns \cup (IF force THEN {} ELSE {"country"})
           rows == PopRecords(work[PAGE_VIEWS], force, limit)
       IN  IF ~StatementOk(PAGE_VIEWS, referenced)
           THEN Abort("1", "schema")
           ELSE /\ n_available' =
                     [n_available EXCEPT ![PAGE_VIEWS] =
                         Cardinality(GeoCandidates(work[PAGE_VIEWS], force))]
                /\ n_extracted' = [n_extracted EXCEPT ![PAGE_VIEWS] = Len(rows)]
                /\ UNCHANGED <<n_processed, log>>
                /\ IF Len(rows) = 0
                   THEN Terminate("0", "none")
                   ELSE /\ export_file' = [export_file EXCEPT ![tbl] = rows]
                        /\ pc' = "batch"
                        /\ batch_i' = 0
                        /\ UNCHANGED <<config, live, session, processed_file, tbl,
                                       exit_code, history>>

\* Position of the inner loop in the current batch.
BatchPos == Len(processed_file[PAGE_VIEWS]) - batch_i

\* One iteration of the inner loop: lookup, update_record, processed_count += 1.
\* update_record swallows a failing statement (the transaction is then aborted:
\* every later statement of it fails too); `processed` logs the visit.
PopRecord ==
    /\ script = "pop" /\ pc = "batch"
    /\ BatchPos < Len(Batch(export_file[PAGE_VIEWS], batch_i, batch_size))
    /\ LET rec == Batch(export_file[PAGE_VIEWS], batch_i, batch_size)[BatchPos + 1]
           country == lookup_ip_location(rec.ip)
       IN  /\ processed_file' =
                 [processed_file EXCEPT ![PAGE_VIEWS] =
                     Append(@, [id |-> rec.id, country |-> country])]
           /\ n_processed' = [n_processed EXCEPT ![PAGE_VIEWS] = @ + 1]
           /\ IF dry_run
              THEN UNCHANGED <<work, txn_aborted, log>>
              ELSE \E statement_ok \in BOOLEAN :
                     IF statement_ok /\ ~txn_aborted
                     THEN /\ work' = [work EXCEPT ![PAGE_VIEWS] =
                                         PopSetCountry(@, rec.id, country)]
                          /\ log' = [log EXCEPT !.updates[PAGE_VIEWS] = @ + 1]
                          /\ UNCHANGED txn_aborted
                     ELSE /\ txn_aborted' = TRUE
                          /\ UNCHANGED <<work, log>>
    /\ UNCHANGED <<config, live, conn, temp, export_file, pc, tbl, batch_i, exit_code,
                   history, n_available, n_extracted>>

\* End of a batch: db.commit() unless dry-run (a commit of an aborted transaction
\* rolls it back), then the next batch or the end of the loop.
PopEndBatch ==
    /\ script = "pop" /\ pc = "batch"
    /\ BatchPos = Len(Batch(export_file[PAGE_VIEWS], batch_i, batch_size))
    /\ IF dry_run
       THEN UNCHANGED <<live, work, txn_aborted, log>>
       ELSE /\ live' = IF txn_aborted THEN live ELSE work
            /\ work' = IF txn_aborted THEN live ELSE work
            /\ txn_aborted' = FALSE
            /\ log' = [log EXCEPT !.commits[PAGE_VIEWS] = @ + 1]
    /\ batch_i' = batch_i + batch_size
    /\ pc' = IF batch_i + batch_size >= Len(export_file[PAGE_VIEWS]) THEN "return" ELSE "batch"
    /\ UNCHANGED <<config, conn, temp, files, tbl, exit_code, history, counters>>

\* return True, through DatabaseConnection.__exit__.
PopReturn ==
    /\ script = "pop" /\ pc = "return"
    /\ Terminate("0", "none")
    /\ UNCHANGED <<counters, log>>

\* An exception (connection refused or lost, failing SELECT or COMMIT) leaves the
\* with block: rollback, close, and main() returns 1.
PopRaise ==
    /\ script = "pop"
    /\ \/ pc \in {"connect", "validate", "extract"}
       \/ /\ pc = "batch" /\ ~dry_run
          /\ BatchPos = Len(Batch(export_file[PAGE_VIEWS], batch_i, batch_size))
    /\ Abort("1", "database")

PopInterrupt ==
    /\ script = "pop" /\ pc # "done"
    /\ Abort("130", "interrupt")

\* --------------------------------------------- bulk_normalize_user_agents
\* COPY ... TO STDOUT WITH CSV read back by csv.reader: NULL and '' both read ''.
ExportField(v) == IF v = NULL THEN "" ELSE v

\* has_referrer / has_domain_normalized
HasReferrer(all_columns) ==
    "referrer" \in all_columns /\ "referrer_normalized" \in all_columns

HasDomain(all_columns) ==
    "domain" \in all_columns /\ "domain_normalized" \in all_columns

Opt(present, column) == IF present THEN <<column>> ELSE <<>>

Range(seq) == {seq[i] : i \in 1 .. Len(seq)}

select_columns(has_referrer, has_domain) ==
    <<"id", "user_agent">> \o Opt(has_referrer, "referrer") \o Opt(has_domain, "domain")

output_columns(has_referrer, has_domain) ==
    <<"id", "browser_normalized", "os_normalized", "device_normalized">>
        \o Opt(has_referrer, "referrer_normalized")
        \o Opt(has_domain, "domain_normalized")
        \o <<"is_bot">>

temp_columns(has_referrer, has_domain) ==
    <<"id", "browser_normalized", "os_normalized", "device_normalized">>
        \o Opt(has_referrer, "referrer_normalized")
        \o Opt(has_domain, "domain_normalized")
        \o <<"is_bot">>

\* Variant: the COPY column list names the optional columns whatever the table has.
copy_columns_fixed(has_referrer, has_domain) ==
    <<"id", "browser_normalized", "os_normalized", "device_normalized",
      "referrer_normalized", "domain_normalized", "is_bot">>

copy_columns(has_referrer, has_domain) ==
    <<"id", "browser_normalized", "os_normalized", "device_normalized">>
        \o Opt(has_referrer, "referrer_normalized")
        \o Opt(has_domain, "domain_normalized")
        \o <<"is_bot">>

\* The columns the SET clauses assign.
set_columns(has_referrer, has_domain) ==
    <<"browser_normalized", "os_normalized", "device_normalized">>
        \o Opt(has_referrer, "referrer_normalized")
        \o Opt(has_domain, "domain_normalized")
        \o <<"is_bot">>

\* WHERE clause of the export.
\* Variant: a row is a candidate for its user agent only when all three derived
\* fields are missing.
UaWhereAllMissing(row, forced, has_referrer, has_domain) ==
    IF forced THEN TRUE
    ELSE \/ /\ row.user_agent # NULL
            /\ row.browser_normalized = NULL
            /\ row.os_normalized = NULL
            /\ row.device_normalized = NULL
         \/ has_referrer /\ row.referrer # NULL /\ row.referrer_normalized = NULL
         \/ has_domain /\ row.domain # NULL /\ row.domain_normalized = NULL

UaWhere(row, forced, has_referrer, has_domain) ==
    IF forced THEN TRUE
    ELSE \/ /\ row.user_agent # NULL
            /\ \/ row.browser_normalized = NULL
               \/ row.os_normalized = NULL
               \/ row.device_normalized = NULL
         \/ has_referrer /\ row.referrer # NULL /\ row.referrer_normalized = NULL
         \/ has_domain /\ row.domain # NULL /\ row.domain_normalized = NULL

UaCandidates(tab, forced, has_referrer, has_domain) ==
    {id \in Ids : UaWhere(tab[id], forced, has_referrer, has_domain)}

\* The columns the export query names.
UaExtractColumns(forced, has_referrer, has_domain) ==
    Range(select_columns(has_referrer, has_domain)) \cup {"timestamp"}
        \cup (IF forced THEN {}
              ELSE {"browser_normalized", "os_normalized", "device_normalized"}
                   \cup (IF has_referrer THEN {"referrer_normalized"} ELSE {})
                   \cup (IF has_domain THEN {"domain_normalized"} ELSE {}))

UaExport(tab, forced, lim, has_referrer, has_domain) ==
    LET ids == ApplyLimit(OrderByTimestampDesc(
                   UaCandidates(tab, forced, has_referrer, has_domain)), lim)
        cols == Range(select_columns(has_referrer, has_domain))
    IN  [k \in 1 .. Len(ids) |->
            [c \in cols |-> IF c = "id" THEN ids[k]
                            ELSE ExportField(tab[ids[k]][c])]]

\* Variant: a false flag is written as an empty field.
BoolTextOrEmpty(b) == IF b THEN "true" ELSE ""

\* 'true' if is_bot_flag else 'false'
BoolText(b) == IF b THEN "true" ELSE "false"

\* One row of the processed file, from one row of the export file.
UaProcessRow(row, has_referrer, has_domain) ==
    LET user_agent == row["user_agent"]
        referrer == IF has_referrer THEN row["referrer"] ELSE NULL
        domain == IF has_domain THEN row["domain"] ELSE NULL
        ua == IF Truthy(user_agent) THEN normalize_user_agent(user_agent)
              ELSE UAResult(NULL, NULL, NULL, FALSE)
        referrer_norm == IF has_referrer /\ Truthy(referrer)
                         THEN normalize_referrer(referrer) ELSE NULL
        domain_norm == IF has_domain /\ Truthy(domain)
                       THEN normalize_domain(domain) ELSE NULL
    IN  [c \in Range(output_columns(has_referrer, has_domain)) |->
            CASE c = "id" -> row["id"]
              [] c = "browser_normalized" -> OrEmpty(ua.browser)
              [] c = "os_normalized" -> OrEmpty(ua.os)
              [] c = "device_normalized" -> OrEmpty(ua.device)
              [] c = "referrer_normalized" -> OrEmpty(referrer_norm)
              [] c = "domain_normalized" -> OrEmpty(domain_norm)
              [] c = "is_bot" -> BoolText(ua.is_bot)]

\* Domains of the fixture that hold a comma, a double quote or a backslash.
SpecialDomains == {"a,b", "a\"b", "a\\z"}

\* A field value of the fixture cut into its commas, double quotes and
\* backslashes and the runs of other characters between them.
Tokens(s) ==
    CASE s = ""       -> <<>>
      [] s = "a,b"    -> <<"a", ",", "b">>
      [] s = "a\"b"   -> <<"a", "\"", "b">>
      [] s = "a\\z"   -> <<"a", "\\", "z">>
      [] OTHER        -> <<s>>

\* csv.writer (excel dialect, QUOTE_MINIMAL) on one field: a field with the
\* delimiter or the quote character is wrapped in double quotes, its double
\* quotes doubled; a backslash is nothing special.
CsvField(s) ==
    LET t == Tokens(s)
        doubled[i \in 0 .. Len(t)] ==
            IF i = 0 THEN <<>>
            ELSE doubled[i - 1] \o (IF t[i] = "\"" THEN <<"\"", "\"">> ELSE <<t[i]>>)
    IN  IF \E i \in 1 .. Len(t) : t[i] \in {",", "\""}
        THEN <<"\"">> \o doubled[Len(t)] \o <<"\"">>
        ELSE t

\* writer.writerow: the fields joined by commas.
RECURSIVE CsvRow(_)
CsvRow(fields) ==
    IF fields = <<>> THEN <<>>
    ELSE IF Len(fields) = 1 THEN CsvField(fields[1])
    ELSE CsvField(fields[1]) \o <<",">> \o CsvRow(Tail(fields))

\* COPY ... FROM STDIN in text format with delimiter ',': a line is cut at every
\* comma no backslash precedes, and a backslash makes the character after it
\* a literal one (none of the fixture's is b, f, n, r, t, v, x or a digit); a
\* double quote is a character like any other.
RECURSIVE CopyFields(_, _, _, _)
CopyFields(line, i, field, fields) ==
    IF i > Len(line) THEN Append(fields, field)
    ELSE IF line[i] = "\\" /\ i < Len(line)
    THEN CopyFields(line, i + 2, Append(field, line[i + 1]), fields)
    ELSE IF line[i] = ","
    THEN CopyFields(line, i + 1, <<>>, Append(fields, field))
    ELSE CopyFields(line, i + 1, Append(field, line[i]), fields)

\* The characters of a loaded field as one string.
RECURSIVE Concat(_)
Concat(tokens) ==
    IF tokens = <<>> THEN "" ELSE Head(tokens) \o Concat(Tail(tokens))

\* The fields COPY reads after the id from the line written for a processed row
\* (the id is written as digits and is read back as it was written).
UaCopyLine(row, has_referrer, has_domain) ==
    LET written == Tail(output_columns(has_referrer, has_domain)) IN
    CopyFields(CsvRow([i \in 1 .. Len(written) |-> row[written[i]]]), 1, <<>>, <<>>)

\* COPY raises: a line has more or fewer fields than the column list, or its
\* is_bot field is no boolean.
UaCopyFails(file, has_referrer, has_domain) ==
    LET loaded == Tail(copy_columns(has_referrer, has_domain)) IN
    \E k \in 1 .. Len(file) :
        LET fields == UaCopyLine(file[k], has_referrer, has_domain) IN
        \/ Len(fields) # Len(loaded)
        \/ Concat(fields[Len(fields)]) \notin {"true", "false"}

\* COPY FROM of the processed file into temp_normalized_data: the fields of a
\* line go to the columns of the column list by position.
UaCopyRows(file, has_referrer, has_domain) ==
    LET loaded == Tail(copy_columns(has_referrer, has_domain)) IN
    [k \in 1 .. Len(file) |->
        LET fields == UaCopyLine(file[k], has_referrer, has_domain) IN
        [c \in Range(copy_columns(has_referrer, has_domain)) |->
            IF c = "id" THEN file[k]["id"]
            ELSE LET j == CHOOSE j \in 1 .. Len(loaded) : loaded[j] = c IN
                 IF j <= Len(fields) THEN CopyField(Concat(fields[j])) ELSE NULL]]

\* Variant: the staged bot flag is not consulted.
BotSensitiveIgnoringFlag(t_is_bot, t_value, m_value) == COALESCE(t_value, m_value)

\* CASE WHEN t.is_bot THEN NULL ELSE COALESCE(t.col, m.col) END
BotSensitive(t_is_bot, t_value, m_value) ==
    IF t_is_bot = "true" THEN NULL ELSE COALESCE(t_value, m_value)

\* Variant: the other derived columns take the staged value even when it is
\* empty.
SetClauseOverwriting(c, m, t) ==
    IF c \in {"browser_normalized", "os_normalized", "device_normalized"}
    THEN BotSensitive(t["is_bot"], t[c], m[c])
    ELSE t[c]

\* One SET clause.
SetClause(c, m, t) ==
    IF c \in {"browser_normalized", "os_normalized", "device_normalized"}
    THEN BotSensitive(t["is_bot"], t[c], m[c])
    ELSE COALESCE(t[c], m[c])

\* Variant: the UPDATE has no SET clause for is_bot.
UaSetRowKeepingFlag(m, t, has_referrer, has_domain) ==
    [c \in DOMAIN m |->
        IF c \in Range(set_columns(has_referrer, has_domain)) \ {"is_bot"}
        THEN SetClause(c, m, t) ELSE m[c]]

UaSetRow(m, t, has_referrer, has_domain) ==
    [c \in DOMAIN m |->
        IF c \in Range(set_columns(has_referrer, has_domain))
        THEN SetClause(c, m, t) ELSE m[c]]

\* Variant: the UPDATE has no join condition, every row takes the first staged row.
UaMergeWithoutJoin(tab, rows, has_referrer, has_domain) ==
    [id \in Ids |->
        IF Len(rows) > 0
        THEN UaSetRow(tab[id], rows[1], has_referrer, has_domain)
        ELSE tab[id]]

\* UPDATE {table} AS m SET ... FROM temp_normalized_data AS t WHERE m.id = t.id
UaMerge(tab, rows, has_referrer, has_domain) ==
    [id \in Ids |->
        IF id \in SeqIds(rows)
        THEN UaSetRow(tab[id], Staged(rows, id), has_referrer, has_domain)
        ELSE tab[id]]

UaUpdateColumns(has_referrer, has_domain) ==
    Range(set_columns(has_referrer, has_domain)) \cup {"id"}

has_referrer == HasReferrer(columns[tbl])

has_domain_normalized == HasDomain(columns[tbl])

\* process_table returns (its finally block closes the connection); bulk_process
\* goes on to the next table, or returns True after the last.  The table's two
\* files stay on disk; a table whose extraction found no record leaves an
\* export file without rows and the processed file of an earlier run.
UaTableDone ==
    IF tbl = PAGE_VIEWS
    THEN /\ tbl' = EVENTS
         /\ pc' = "connect"
         /\ conn' = IF conn = "none" THEN "none" ELSE "closed"
         /\ work' = live
         /\ temp' = NoTemp
         /\ export_file' = IF pc = "extract" THEN [export_file EXCEPT ![tbl] = <<>>]
                           ELSE export_file
         /\ processed_file' = processed_file
         /\ UNCHANGED <<config, live, txn_aborted, batch_i, exit_code, history>>
    ELSE /\ pc' = "done"
         /\ exit_code' = "0"
         /\ conn' = IF conn = "none" THEN "none" ELSE "closed"
         /\ work' = live
         /\ temp' = NoTemp
         /\ export_file' = IF pc = "extract" THEN [export_file EXCEPT ![tbl] = <<>>]
                           ELSE export_file
         /\ processed_file' = processed_file
         /\ tbl' = PAGE_VIEWS
         /\ UNCHANGED <<config, live, txn_aborted, batch_i, history>>

\* bulk_process: total_processed = 0, then the first table.
UaStart ==
    /\ script = "ua" /\ pc = "start"
    /\ pc' = "connect"
    /\ tbl' = PAGE_VIEWS
    /\ UNCHANGED <<config, live, session, files, batch_i, exit_code, history,
                   counters, log>>

UaConnect ==
    /\ script = "ua" /\ pc = "connect"
    /\ conn' = "open"
    /\ work' = live
    /\ pc' = "extract"
    /\ log' = [log EXCEPT !.connects = @ + 1]
    /\ UNCHANGED <<config, live, txn_aborted, temp, files, tbl, batch_i, exit_code,
                   history, counters>>

\* get_table_columns, Step 1 (COPY ... TO STDOUT), count, early return on zero.
UaExtract ==
    /\ script = "ua" /\ pc = "extract"
    /\ LET rows == UaExport(work[tbl], force, limit, has_referrer,
                            has_domain_normalized)
       IN  IF ~StatementOk(tbl, UaExtractColumns(force, has_referrer,
                                                 has_domain_normalized))
           THEN Abort("1", "schema")
           ELSE /\ n_available' =
                     [n_available EXCEPT ![tbl] =
                         Cardinality(UaCandidates(work[tbl], force, has_referrer,
                                                  has_domain_normalized))]
                /\ n_extracted' = [n_extracted EXCEPT ![tbl] = Len(rows)]
                /\ UNCHANGED <<n_processed, log>>
                /\ IF Len(rows) = 0
                   THEN UaTableDone
                   ELSE /\ export_file' = [export_file EXCEPT ![tbl] = rows]
                        /\ pc' = "transform"
                        /\ UNCHANGED <<config, live, session, processed_file, tbl,
                                       batch_i, exit_code, history>>

\* The try blocks of an iteration that can be at work on the record, each with
\* a bare except: get_fld in normalize_referrer and in normalize_domain.
UaCatchPoints(row) ==
    (IF has_referrer /\ Truthy(row["referrer"]) THEN {"referrer"} ELSE {})
        \cup (IF has_domain_normalized /\ Truthy(row["domain"]) THEN {"domain"} ELSE {})

\* Step 2, one iteration of the loop over the export file.  A KeyboardInterrupt
\* raised while normalize_referrer or normalize_domain is in its try block is
\* caught by the bare except of the function: normalize_referrer returns None,
\* normalize_domain returns the cleaned host, and the loop goes on.
UaTransform ==
    /\ script = "ua" /\ pc = "transform"
    /\ n_processed[tbl] < Len(export_file[tbl])
    /\ LET row == export_file[tbl][n_processed[tbl] + 1]
           result == UaProcessRow(row, has_referrer, has_domain_normalized)
       IN  \E at \in SUBSET UaCatchPoints(row) :
             /\ prev.caught + caught + Cardinality(at) <= MaxCaught
             /\ caught' = caught + Cardinality(at)
             /\ processed_file' =
                  [processed_file EXCEPT ![tbl] =
                      Append(IF n_processed[tbl] = 0 THEN <<>> ELSE @,
                             LET r == IF "referrer" \in at
                                      THEN [result EXCEPT !["referrer_normalized"] = ""]
                                      ELSE result
                             IN  IF "domain" \in at
                                 THEN [r EXCEPT !["domain_normalized"] =
                                          OrEmpty(DomainHost(row["domain"]))]
                                 ELSE r)]
    /\ n_processed' = [n_processed EXCEPT ![tbl] = @ + 1]
    /\ UNCHANGED <<config, live, session, export_file, pc, tbl, batch_i, exit_code,
                   run, pre, prev, failure, n_available, n_extracted, log>>

UaDryRunReport ==
    /\ script = "ua" /\ pc = "transform"
    /\ n_processed[tbl] = Len(export_file[tbl])
    /\ dry_run
    /\ UaTableDone
    /\ UNCHANGED <<counters, log>>

\* conn.close() after the offline phase, then a new connection.
UaReconnect ==
    /\ script = "ua" /\ pc = "transform"
    /\ n_processed[tbl] = Len(export_file[tbl])
    /\ ~dry_run
    /\ conn' = "open"
    /\ work' = live
    /\ pc' = "create_temp"
    /\ log' = [log EXCEPT !.connects = @ + 1]
    /\ UNCHANGED <<config, live, txn_aborted, temp, files, tbl, batch_i, exit_code,
                   history, counters>>

\* Step 3: CREATE TEMPORARY TABLE temp_normalized_data (id BIGINT PRIMARY KEY, ...)
UaCreateTemp ==
    /\ script = "ua" /\ pc = "create_temp"
    /\ temp' = [exists |-> TRUE, rows |-> <<>>]
    /\ pc' = "copy_from"
    /\ log' = [log EXCEPT !.creates = @ + 1]
    /\ UNCHANGED <<config, live, conn, work, txn_aborted, files, tbl, batch_i,
                   exit_code, history, counters>>

\* Step 4: COPY FROM the processed file.
UaCopyFrom ==
    /\ script = "ua" /\ pc = "copy_from"
    /\ LET rows == UaCopyRows(processed_file[tbl], has_referrer, has_domain_normalized) IN
       IF UaCopyFails(processed_file[tbl], has_referrer, has_domain_normalized)
          \/ ~UniqueIds(rows)
       THEN Abort("1", "load")
       ELSE /\ temp' = [temp EXCEPT !.rows = rows]
            /\ pc' = "update"
            /\ log' = [log EXCEPT !.copies = @ + 1]
            /\ UNCHANGED <<config, live, conn, work, txn_aborted, files, tbl,
                           batch_i, exit_code, history,
                           counters>>

\* Step 5: the bulk UPDATE, inside the connection's transaction.
UaUpdate ==
    /\ script = "ua" /\ pc = "update"
    /\ IF ~StatementOk(tbl, UaUpdateColumns(has_referrer, has_domain_normalized))
       THEN Abort("1", "schema")
       ELSE /\ work' = [work EXCEPT ![tbl] =
                           UaMerge(@, temp.rows, has_referrer, has_domain_normalized)]
            /\ pc' = "commit"
            /\ log' = [log EXCEPT !.updates[tbl] = @ + 1]
            /\ UNCHANGED <<config, live, conn, txn_aborted, temp, files, tbl,
                           batch_i, exit_code, history,
                           counters>>

\* Variant: one transaction for the whole run, committed with the last table.
UaCommitWithLastTable ==
    /\ script = "ua" /\ pc = "commit"
    /\ live' = IF tbl = EVENTS THEN work ELSE live
    /\ pc' = "return"
    /\ log' = [log EXCEPT !.commits[tbl] = @ + 1]
    /\ UNCHANGED <<config, session, files, tbl, batch_i, exit_code, history, counters>>

UaCommit ==
    /\ script = "ua" /\ pc = "commit"
    /\ live' = work
    /\ pc' = "return"
    /\ log' = [log EXCEPT !.commits[tbl] = @ + 1]
    /\ UNCHANGED <<config, session, files, tbl, batch_i, exit_code, history, counters>>

\* return processed_count
UaReturn ==
    /\ script = "ua" /\ pc = "return"
    /\ UaTableDone
    /\ UNCHANGED <<counters, log>>

UaRaisePoints ==
    {"connect", "extract", "create_temp", "copy_from", "update", "commit"}

\* An exception in process_table is caught by bulk_process, which returns False:
\* exit code 1.
UaRaise ==
    /\ script = "ua"
    /\ \/ pc \in UaRaisePoints
       \/ pc = "transform" /\ n_processed[tbl] = Len(export_file[tbl]) /\ ~dry_run
    /\ Abort("1", "database")

\* KeyboardInterrupt is not an Exception: it passes bulk_process and main()
\* returns 130.  The interrupt a bare except catches while a row is normalized
\* does not get here, but one that follows it in the same iteration, outside
\* the try blocks and before writer.writerow, does: the run ends with the
\* earlier interrupts caught and the record unwritten.
UaInterrupt ==
    /\ script = "ua" /\ pc # "done"
    /\ \E at \in SUBSET (IF pc = "transform" /\ n_processed[tbl] < Len(export_file[tbl])
                         THEN UaCatchPoints(export_file[tbl][n_processed[tbl] + 1])
                         ELSE {}) :
         /\ prev.caught + caught + Cardinality(at) <= MaxCaught
         /\ TerminateAfter("130", "interrupt", Cardinality(at))
    /\ UNCHANGED <<counters, log>>

\* ------------------------------------------------------------- fixtures
GeoRow(ip, country) == [BlankRow EXCEPT !.ip = ip, !.country = country]

GeoRows ==
    {GeoRow(NULL, NULL), GeoRow("not-an-ip", NULL), GeoRow("8.8.8.8", NULL),
     GeoRow("8.8.8.8", "FR"), GeoRow("10.0.0.1", "FR"), GeoRow("203.0.113.9", NULL)}

\* A column the table lacks holds nothing.
Mask(row, cols) ==
    [f \in DOMAIN row |-> IF f \in cols THEN row[f] ELSE NULL]

GeoSchemas ==
    {AllColumns, AllColumns \ {"country"}, AllColumns \ {"timestamp"}, {}}

UaRow(ua, ref, dom, b, o, d, rn, dn, bot) ==
    [BlankRow EXCEPT !.user_agent = ua, !.referrer = ref, !.domain = dom,
                     !.browser_normalized = b, !.os_normalized = o,
                     !.device_normalized = d, !.referrer_normalized = rn,
                     !.domain_normalized = dn, !.is_bot = bot]

\* Page-view rows: an unprocessed crawler, an unprocessed phone visit, a
\* command-line client once stored as a browser, a visit nothing is known of
\* with older values, and a fully processed visit.
UaRows ==
    {UaRow(UA_GOOGLEBOT, NULL, NULL, NULL, NULL, NULL, NULL, NULL, NULL),
     UaRow(UA_IPHONE, REF_EXAMPLE, DOM_EXAMPLE, NULL, NULL, NULL, NULL, NULL, NULL),
     UaRow(UA_CURL, REF_EXAMPLE, DOM_EXAMPLE,
           "Firefox", NULL, "Desktop", "old.example", "old.example", "false"),
     UaRow(UA_MYSTERY, REF_LOCALHOST, DOM_BLANK,
           "Firefox", "Linux", NULL, "old.example", NULL, "true"),
     UaRow(UA_CHROME, REF_EXAMPLE, DOM_EXAMPLE,
           "Chrome", "Windows", "Desktop", "example.com", "example.com", "false")}

\* Event tables: every row blank, or unprocessed rows of which the first has a
\* user agent the parser chokes on and a domain with no registrable part, and
\* the others are an unknown client.
EventTables ==
    {BlankTable,
     [id \in Ids |->
        IF id = 1
        THEN UaRow(UA_BROKEN, REF_LOCALHOST, DOM_INTRANET,
                   NULL, NULL, NULL, NULL, NULL, NULL)
        ELSE UaRow(UA_MYSTERY, REF_LOCALHOST, NULL,
                   NULL, NULL, NULL, NULL, NULL, NULL)]}

NoReferrer == AllColumns \ {"referrer", "referrer_normalized"}

NoDomain == AllColumns \ {"domain_normalized"}

\* (page views, events) schemas.
UaSchemas ==
    {<<AllColumns, AllColumns>>,
     <<AllColumns, NoReferrer \cap NoDomain>>,
     <<NoReferrer, NoDomain>>,
     <<AllColumns, {}>>,
     <<AllColumns \ {"is_bot"}, AllColumns>>}

\* Page-view contents tried with a schema: with the complete schema the oldest
\* row of one kind and the newer rows of another, every pair of kinds; one kind
\* of row per table with the other schemas.
UaTables(schema) ==
    IF schema = <<AllColumns, AllColumns>>
    THEN {[id \in Ids |-> IF id = 1 THEN old ELSE new] : old \in UaRows, new \in UaRows}
    ELSE {[id \in Ids |-> row] : row \in UaRows}

Scripts == {"geo", "ua", "pop"}

Limits == {NoLimit} \cup {<<n>> : n \in 0 .. MaxLimit}

Init ==
    /\ script \in Scripts
    /\ limit \in Limits
    /\ dry_run \in BOOLEAN
    /\ force \in BOOLEAN
    /\ batch_size \in (IF script = "pop" THEN BatchSizes ELSE {1})
    /\ geoip_present \in (IF script = "ua" THEN {TRUE} ELSE BOOLEAN)
    /\ bots_yml = [kind |-> "list", entries |-> {"googlebot", "bingbot"}]
    /\ custom_bots_yml = [kind |-> "mapping", entries |-> {"curl", "Python-Requests"}]
    /\ matomo_bot_patterns = load_matomo_bot_patterns(bots_yml)
    /\ custom_bot_signatures = load_custom_bot_signatures(custom_bots_yml)
    /\ IF script = "ua"
       THEN \E schema \in UaSchemas, ev \in EventTables : \E tab \in UaTables(schema) :
              /\ columns = [t \in Tables |->
                              IF t = PAGE_VIEWS THEN schema[1] ELSE schema[2]]
              /\ live = [t \in Tables |->
                          IF t = PAGE_VIEWS
                          THEN [id \in Ids |-> Mask(tab[id], schema[1])]
                          ELSE [id \in Ids |-> Mask(ev[id], schema[2])]]
       ELSE \E cols \in GeoSchemas, old \in GeoRows, new \in GeoRows :
            LET tab == [id \in Ids |-> IF id = 1 THEN old ELSE new] IN
              /\ columns = [t \in Tables |-> IF t = PAGE_VIEWS THEN cols ELSE {}]
              /\ live = [t \in Tables |->
                          IF t = PAGE_VIEWS
                          THEN [id \in Ids |-> Mask(tab[id], cols)]
                          ELSE BlankTable]
    /\ work = live
    /\ conn = "none"
    /\ txn_aborted = FALSE
    /\ temp = NoTemp
    /\ export_file = [t \in Tables |-> <<>>]
    /\ processed_file = [t \in Tables |-> <<>>]
    /\ pc = "start"
    /\ tbl = PAGE_VIEWS
    /\ batch_i = 0
    /\ exit_code = "running"
    /\ run = 1
    /\ pre = live
    /\ failure = "none"
    /\ caught = 0
    /\ prev = [available |-> ZeroCount, extracted |-> ZeroCount, caught |-> 0]
    /\ n_available = ZeroCount
    /\ n_extracted = ZeroCount
    /\ n_processed = ZeroCount
    /\ log = ZeroLog

\* ------------------------------------------- the import and a forced run
\* Page views: a crawler and command-line clients; events: a phone and crawlers.
BotTables ==
    [t \in Tables |->
        [id \in Ids |->
            UaRow(IF t = PAGE_VIEWS
                  THEN (IF id = 1 THEN UA_GOOGLEBOT ELSE UA_CURL)
                  ELSE (IF id = 1 THEN UA_IPHONE ELSE UA_GOOGLEBOT),
                  NULL, NULL, NULL, NULL, NULL, NULL, NULL, NULL)]]

\* The module is imported with the two sources in any condition, then main()
\* runs bulk_process with --force.
BotInit ==
    /\ script = "ua"
    /\ limit = NoLimit /\ dry_run = FALSE /\ force = TRUE
    /\ batch_size = 1 /\ geoip_present = TRUE
    /\ bots_yml \in MatomoFiles
    /\ custom_bots_yml \in CustomFiles
    /\ matomo_bot_patterns = {}
    /\ custom_bot_signatures = {}
    /\ columns = [t \in Tables |-> AllColumns]
    /\ live = BotTables
    /\ work = live
    /\ conn = "none"
    /\ txn_aborted = FALSE
    /\ temp = NoTemp
    /\ export_file = [t \in Tables |-> <<>>]
    /\ processed_file = [t \in Tables |-> <<>>]
    /\ pc = "import_matomo"
    /\ tbl = PAGE_VIEWS
    /\ batch_i = 0
    /\ exit_code = "running"
    /\ run = 1
    /\ pre = live
    /\ failure = "none"
    /\ caught = 0
    /\ prev = [available |-> ZeroCount, extracted |-> ZeroCount, caught |-> 0]
    /\ n_available = ZeroCount
    /\ n_extracted = ZeroCount
    /\ n_processed = ZeroCount
    /\ log = ZeroLog

BotNext ==
    \/ ImportMatomo \/ ImportCustom
    \/ UaStart \/ UaConnect \/ UaExtract \/ UaTransform \/ UaReconnect
    \/ UaCreateTemp \/ UaCopyFrom \/ UaUpdate \/ UaCommit \/ UaReturn

BotSpec == BotInit /\ [][BotNext]_vars

\* ------------------------------------- domains with special characters
\* A run of the user-agent script on unprocessed rows whose domain has no
\* registrable part and holds a comma, a double quote, a backslash or none of
\* them: any mix of them in the page views, one kind in the events.
CsvInit ==
    /\ script = "ua"
    /\ limit \in Limits
    /\ dry_run \in BOOLEAN
    /\ force \in BOOLEAN
    /\ batch_size = 1 /\ geoip_present = TRUE
    /\ bots_yml = [kind |-> "list", entries |-> {"googlebot", "bingbot"}]
    /\ custom_bots_yml = [kind |-> "mapping", entries |-> {"curl", "Python-Requests"}]
    /\ matomo_bot_patterns = load_matomo_bot_patterns(bots_yml)
    /\ custom_bot_signatures = load_custom_bot_signatures(custom_bots_yml)
    /\ columns = [t \in Tables |-> AllColumns]
    /\ \E pv \in [Ids -> SpecialDomains \cup {DOM_INTRANET}],
          ev \in SpecialDomains \cup {DOM_INTRANET} :
          live = [t \in Tables |->
                    [id \in Ids |->
                        UaRow(UA_CHROME, REF_EXAMPLE,
                              IF t = PAGE_VIEWS THEN pv[id] ELSE ev,
                              NULL, NULL, NULL, NULL, NULL, NULL)]]
    /\ work = live
    /\ conn = "none"
    /\ txn_aborted = FALSE
    /\ temp = NoTemp
    /\ export_file = [t \in Tables |-> <<>>]
    /\ processed_file = [t \in Tables |-> <<>>]
    /\ pc = "start"
    /\ tbl = PAGE_VIEWS
    /\ batch_i = 0
    /\ exit_code = "running"
    /\ run = 1
    /\ pre = live
    /\ failure = "none"
    /\ caught = 0
    /\ prev = [available |-> ZeroCount, extracted |-> ZeroCount, caught |-> 0]
    /\ n_available = ZeroCount
    /\ n_extracted = ZeroCount
    /\ n_processed = ZeroCount
    /\ log = ZeroLog

CsvNext ==
    \/ UaStart \/ UaConnect \/ UaExtract \/ UaTransform \/ UaDryRunReport
    \/ UaReconnect \/ UaCreateTemp \/ UaCopyFrom \/ UaUpdate \/ UaCommit
    \/ UaReturn

CsvSpec == CsvInit /\ [][CsvNext]_vars

\* The operator invokes the script a second time in incremental mode, with the
\* same arguments, after it exited with code 0.
Rerun ==
    /\ pc = "done" /\ exit_code = "0" /\ run = 1 /\ ~force
    /\ run' = 2
    /\ pre' = live
    /\ prev' = [available |-> n_available, extracted |-> n_extracted, caught |-> caught]
    /\ pc' = "start"
    /\ exit_code' = "running"
    /\ conn' = "none"
    /\ n_available' = ZeroCount
    /\ n_extracted' = ZeroCount
    /\ n_processed' = ZeroCount
    /\ log' = ZeroLog
    /\ caught' = 0
    /\ UNCHANGED <<config, live, work, txn_aborted, temp, files, tbl, batch_i,
                   failure>>

Next ==
    \/ GeoValidate \/ GeoConnect \/ GeoExtract \/ GeoTransform \/ GeoDryRunReport
    \/ GeoReconnect \/ GeoCreateTemp \/ GeoCopyFrom \/ GeoUpdate \/ GeoCommit
    \/ GeoReturn \/ GeoRaise \/ GeoInterrupt
    \/ PopInit \/ PopConnect \/ PopValidate \/ PopExtract \/ PopRecord
    \/ PopEndBatch \/ PopReturn \/ PopRaise \/ PopInterrupt
    \/ UaStart \/ UaConnect \/ UaExtract \/ UaTransform \/ UaDryRunReport
    \/ UaReconnect \/ UaCreateTemp \/ UaCopyFrom \/ UaUpdate \/ UaCommit
    \/ UaReturn \/ UaRaise \/ UaInterrupt
    \/ Rerun

Spec == Init /\ [][Next]_vars

\* ================================================================ claims
Done == pc = "done"

\* What this invocation has extracted for the table it is working on: the rows
\* of that table's export file, once the invocation has written them.
export == IF n_extracted[tbl] > 0 THEN export_file[tbl] ELSE <<>>

\* What this invocation has written for the table it is working on: the rows of
\* that table's processed file, once the invocation has opened it.
processed == IF n_processed[tbl] > 0 THEN processed_file[tbl] ELSE <<>>

\* The tables a script works on.
ScriptTables == IF script = "ua" THEN Tables ELSE {PAGE_VIEWS}

\* Ways a run can fail that its arguments do not decide: the database call
\* raised, or the operator interrupted the run.
External == {"database", "interrupt"}

\* The environment failures a run with the given arguments is not to blame for.
EnvironmentFailure ==
    \/ failure \in External
    \/ failure = "dataset" /\ ~geoip_present
    \/ failure = "schema" /\ \E t \in ScriptTables : columns[t] # AllColumns

BotSensitiveColumns == {"browser_normalized", "os_normalized", "device_normalized"}

\* The merge has been executed on the open connection (and perhaps committed).
Merged == pc \in {"commit", "return"}

\* ---------------------------------------------------------------- C1
\* C1: in every script a run with --dry-run executes no mutating statement
\* (no temporary table, no COPY FROM, no UPDATE, no COMMIT), so the live tables
\* and the connection's view of them stay what they were when the run started,
\* for every limit and force; and the run ends with exit code 0 unless the
\* environment fails (missing dataset, incomplete schema, database error,
\* interrupt).
C1_DryRunNeverMutates ==
    dry_run =>
        /\ live = pre
        /\ work = live
        /\ ~temp.exists
        /\ log.creates = 0 /\ log.copies = 0
        /\ log.updates = ZeroCount /\ log.commits = ZeroCount
        /\ pc \notin {"create_temp", "copy_from", "update", "commit"}
        /\ (Done => exit_code = "0" \/ EnvironmentFailure)

\* A dry run of the row-by-row script that visited two records and ended well.
C1_Witness ==
    /\ script = "pop" /\ dry_run /\ Done /\ exit_code = "0"
    /\ n_processed[PAGE_VIEWS] >= 2
    /\ \E id \in Ids : pre[PAGE_VIEWS][id].country # lookup_ip_location(pre[PAGE_VIEWS][id].ip)
                       /\ pre[PAGE_VIEWS][id].ip # NULL

\* ---------------------------------------------------------------- C2
\* The value the merge must leave in a bot-sensitive column.
C2_Expected(p, c, old) ==
    IF p["is_bot"] = "true" THEN NULL
    ELSE IF p[c] # "" THEN p[c] ELSE old[c]

\* C2: after the user-agent merge, for every staged id and each of
\* browser_normalized, os_normalized, device_normalized: the row is NULL there
\* when the staged result is bot-flagged; otherwise it holds the staged value
\* when that is non-empty and the value from before the merge when it is empty.
C2_BotSensitiveMerge ==
    (script = "ua" /\ Merged) =>
        \A k \in 1 .. Len(processed) :
            LET p == processed[k]
                id == p["id"]
            IN  \A c \in BotSensitiveColumns :
                    /\ work[tbl][id][c] = C2_Expected(p, c, pre[tbl][id])
                    /\ (pc = "return" =>
                            live[tbl][id][c] = C2_Expected(p, c, pre[tbl][id]))

\* A committed merge that nulled a stored browser for a bot-flagged result, and
\* one that kept a stored browser because the staged one was empty.
C2_Witness ==
    /\ script = "ua" /\ pc = "return" /\ tbl = PAGE_VIEWS
    /\ \E k \in 1 .. Len(processed) :
          /\ processed[k]["is_bot"] = "true"
          /\ pre[tbl][processed[k]["id"]].browser_normalized # NULL
          /\ live[tbl][processed[k]["id"]].browser_normalized = NULL
    /\ \E k \in 1 .. Len(processed) :
          /\ processed[k]["is_bot"] = "false"
          /\ processed[k]["browser_normalized"] = ""
          /\ pre[tbl][processed[k]["id"]].browser_normalized # NULL
          /\ live[tbl][processed[k]["id"]].browser_normalized # NULL

\* ---------------------------------------------------------------- C3
C3_Expected(staged, old) == IF staged # "" THEN staged ELSE old

\* The other derived columns the user-agent merge sets on this table.
C3_UaColumns ==
    (IF has_referrer THEN {"referrer_normalized"} ELSE {})
        \cup (IF has_domain_normalized THEN {"domain_normalized"} ELSE {})

\* The country rule on every pair of a stored and a staged value.
C3_CountryRule ==
    \A old \in {NULL, "US"}, staged \in {"", "FR", "ZZ"} :
        GeoMerge([id \in Ids |-> GeoRow("8.8.8.8", old)],
                 GeoCopyRows(<<[id |-> 1, country |-> staged]>>))[1].country
            = C3_Expected(staged, old)

\* C3: after a merge, for every staged id and each of country (geolocation),
\* referrer_normalized and domain_normalized (user agents): the row holds the
\* staged value when that is non-empty, and the value from before the merge
\* when it is empty.  The country rule is also checked on every pair of a
\* stored and a staged value, the empty staged ones included.
C3_OtherFieldsMerge ==
    /\ (script = "geo" /\ Merged) =>
          \A k \in 1 .. Len(processed) :
              LET p == processed[k] IN
              /\ work[PAGE_VIEWS][p.id].country =
                     C3_Expected(p.country, pre[PAGE_VIEWS][p.id].country)
              /\ (pc = "return" =>
                     live[PAGE_VIEWS][p.id].country =
                         C3_Expected(p.country, pre[PAGE_VIEWS][p.id].country))
    /\ (script = "ua" /\ Merged) =>
          \A k \in 1 .. Len(processed) :
              LET p == processed[k] IN
              \A c \in C3_UaColumns :
                  /\ work[tbl][p["id"]][c] = C3_Expected(p[c], pre[tbl][p["id"]][c])
                  /\ (pc = "return" =>
                         live[tbl][p["id"]][c] =
                             C3_Expected(p[c], pre[tbl][p["id"]][c]))
    /\ C3_CountryRule

\* A committed user-agent merge that kept a stored referrer domain because the
\* staged one was empty, and replaced a stored plain domain by a staged one.
C3_Witness ==
    /\ script = "ua" /\ pc = "return" /\ tbl = PAGE_VIEWS
    /\ has_referrer /\ has_domain_normalized
    /\ \E k \in 1 .. Len(processed) :
          /\ processed[k]["referrer_normalized"] = ""
          /\ pre[tbl][processed[k]["id"]].referrer_normalized = "old.example"
          /\ live[tbl][processed[k]["id"]].referrer_normalized = "old.example"
    /\ \E k \in 1 .. Len(processed) :
          /\ processed[k]["domain_normalized"] = "example.com"
          /\ pre[tbl][processed[k]["id"]].domain_normalized = "old.example"
          /\ live[tbl][processed[k]["id"]].domain_normalized = "example.com"

\* ---------------------------------------------------------------- C4
\* C4: the transformer writes a definite 'true' or 'false' flag for every
\* record, the staging table holds that flag, and after the user-agent merge
\* the is_bot of every staged row equals it, whatever it was before.
C4_BotFlagOverwritten ==
    script = "ua" =>
        /\ \A k \in 1 .. Len(processed) : processed[k]["is_bot"] \in {"true", "false"}
        /\ \A k \in 1 .. Len(temp.rows) :
              temp.rows[k]["is_bot"] = processed[k]["is_bot"]
        /\ Merged =>
              \A k \in 1 .. Len(processed) :
                  /\ work[tbl][processed[k]["id"]].is_bot = processed[k]["is_bot"]
                  /\ (pc = "return" =>
                         live[tbl][processed[k]["id"]].is_bot = processed[k]["is_bot"])

\* A committed merge that turned a stored true flag into false and a stored
\* false flag into true.
C4_Witness ==
    /\ script = "ua" /\ pc = "return" /\ tbl = PAGE_VIEWS
    /\ \E id \in Ids : pre[tbl][id].is_bot = "true" /\ live[tbl][id].is_bot = "false"
    /\ \E id \in Ids : pre[tbl][id].is_bot = "false" /\ live[tbl][id].is_bot = "true"

\* ---------------------------------------------------------------- C5
\* The table with every staged row of this run applied.  The staged rows of the
\* user-agent script are the rows of the table's processed file as the run
\* wrote it: an interrupt caught while a row was normalized is in them.
C5_AllApplied(t) ==
    IF script = "geo"
    THEN LET exported == GeoExport(pre[t], force, limit)
             staged == GeoCopyRows([k \in 1 .. Len(exported) |->
                                       GeoProcessRow(exported[k])])
         IN  [id \in Ids |->
                 IF id \in SeqIds(staged)
                 THEN GeoSetRow(pre[t][id], Staged(staged, id)) ELSE pre[t][id]]
    ELSE LET hr == HasReferrer(columns[t])
             hd == HasDomain(columns[t])
             exported == UaExport(pre[t], force, limit, hr, hd)
             staged == UaCopyRows(IF caught = 0
                                  THEN [k \in 1 .. Len(exported) |->
                                           UaProcessRow(exported[k], hr, hd)]
                                  ELSE processed_file[t], hr, hd)
         IN  [id \in Ids |->
                 IF id \in SeqIds(staged)
                 THEN UaSetRow(pre[t][id], Staged(staged, id), hr, hd)
                 ELSE pre[t][id]]

\* C5: in the two bulk scripts, at every point of a run (after an error or an
\* interrupt too) the committed content of each table is the content at the
\* start of the run or that content with every staged row applied; a run
\* executes at most one UPDATE and one COMMIT per table, and exactly one of
\* each on a table once its merge is committed.
C5_MergeAllOrNothing ==
    [](script \in {"geo", "ua"} =>
        \A t \in ScriptTables :
            /\ live[t] = pre[t] \/ live[t] = C5_AllApplied(t)
            /\ log.updates[t] <= 1 /\ log.commits[t] <= 1
            /\ log.commits[t] <= log.updates[t]
            /\ (pc = "return" /\ tbl = t => log.updates[t] = 1 /\ log.commits[t] = 1)
            /\ (exit_code = "running" /\ live[t] # pre[t] => log.commits[t] = 1))

\* A committed merge that changed two rows of a table, seen after the run was
\* interrupted or failed later on.
C5_Witness ==
    /\ script = "ua" /\ Done /\ exit_code # "0"
    /\ Cardinality({id \in Ids : live[PAGE_VIEWS][id] # pre[PAGE_VIEWS][id]}) >= 2
    /\ live[EVENTS] = pre[EVENTS]

\* ---------------------------------------------------------------- C6
\* The records a row-by-row run works on.
C6_Records == PopRecords(pre[PAGE_VIEWS], force, limit)

\* The UPDATE of a record has been committed.
C6_Applied(rec) ==
    live[PAGE_VIEWS][rec.id].country = lookup_ip_location(rec.ip)

\* C6: in the row-by-row script, cutting the candidate records into batches
\* does not change the atomicity of the merge: at every point of a run (after
\* an error or an interrupt between batches too) the committed table has none
\* or all of the run's updates applied.
C6_RunAllOrNothing ==
    script = "pop" =>
        \/ live[PAGE_VIEWS] = pre[PAGE_VIEWS]
        \/ \A k \in 1 .. Len(C6_Records) : C6_Applied(C6_Records[k])

\* ---------------------------------------------------------------- C7
\* The first run was a real one that took every candidate row.
C7_FirstRunComplete ==
    /\ run = 2 /\ ~force /\ ~dry_run
    /\ prev.extracted = prev.available

\* C7 as stated: the second of two incremental geolocation runs extracts and
\* processes nothing.
C7_SecondRunExtractsNothing ==
    (script = "geo" /\ run = 2 /\ ~force) =>
        n_extracted[PAGE_VIEWS] = 0 /\ n_processed[PAGE_VIEWS] = 0

\* C7, amended: when the first incremental geolocation run was not a dry run
\* and no row limit kept candidate rows out of it, the second run finds no
\* candidate row, extracts and processes nothing, never enters the transform
\* or update phase, leaves the table as the first run left it, and ends with
\* exit code 0 unless the environment fails.
C7_SecondFullRunExtractsNothing ==
    (script = "geo" /\ C7_FirstRunComplete) =>
        /\ \A id \in Ids : ~(live[PAGE_VIEWS][id].ip # NULL
                             /\ live[PAGE_VIEWS][id].country = NULL)
        /\ n_extracted[PAGE_VIEWS] = 0 /\ n_processed[PAGE_VIEWS] = 0
        /\ pc \in {"start", "connect", "extract", "done"}
        /\ export = <<>> /\ ~temp.exists
        /\ live = pre
        /\ (Done => exit_code = "0" \/ failure \in External)

\* A second run that ended well after a first run that had geolocated two
\* rows, one of them to the sentinel.
C7_Witness ==
    /\ script = "geo" /\ C7_FirstRunComplete /\ Done /\ exit_code = "0"
    /\ prev.extracted[PAGE_VIEWS] >= 2
    /\ \E id \in Ids : live[PAGE_VIEWS][id].country = UNKNOWN_COUNTRY

\* ---------------------------------------------------------------- C8
\* C8: the second of two incremental user-agent runs, the first of which was
\* not a dry run and took every candidate row, extracts and processes no
\* record from either table.
C8_SecondRunExtractsNothing ==
    (script = "ua" /\ C7_FirstRunComplete) =>
        n_extracted = ZeroCount /\ n_processed = ZeroCount

\* ---------------------------------------------------------------- C9
\* No row of the table is matched by the incremental predicate.
C9_Settled(t) ==
    \A id \in Ids :
        LET row == pre[t][id] IN
        IF script = "ua"
        THEN /\ row.user_agent = NULL
                \/ (/\ row.browser_normalized # NULL
                    /\ row.os_normalized # NULL
                    /\ row.device_normalized # NULL)
             /\ row.referrer = NULL \/ row.referrer_normalized # NULL
             /\ row.domain = NULL \/ row.domain_normalized # NULL
        ELSE row.ip = NULL \/ row.country # NULL

\* C9: in incremental mode, a table none of whose rows is matched by the
\* predicate yields zero candidate records: nothing is extracted or processed
\* from it, no staging table is created for it, no UPDATE or COMMIT is executed
\* on it, it is left unchanged; and when that holds of every table of the run,
\* the run ends with exit code 0 unless the environment fails.
C9_NothingToDo ==
    ~force =>
        /\ \A t \in ScriptTables :
              C9_Settled(t) =>
                  /\ n_extracted[t] = 0 /\ n_processed[t] = 0
                  /\ log.updates[t] = 0 /\ log.commits[t] = 0
                  /\ live[t] = pre[t]
                  /\ tbl = t =>
                        /\ pc \in {"start", "connect", "validate", "extract", "done"}
                        /\ ~temp.exists /\ export = <<>> /\ processed = <<>>
        /\ (\A t \in ScriptTables : C9_Settled(t)) =>
              /\ log.creates = 0 /\ log.copies = 0
              /\ (Done => exit_code = "0" \/ EnvironmentFailure)

\* A real incremental user-agent run over page views that were all processed
\* before, ended well.
C9_Witness ==
    /\ script = "ua" /\ ~force /\ ~dry_run /\ run = 1
    /\ Done /\ exit_code = "0"
    /\ \A t \in Tables : C9_Settled(t)
    /\ \A id \in Ids : pre[PAGE_VIEWS][id].user_agent # NULL
    /\ log.connects = 2

\* --------------------------------------------------------------- C10
\* The rows of a table the inclusion predicate holds of.
C10_Available(t) ==
    IF script = "ua"
    THEN Cardinality(UaCandidates(pre[t], force, HasReferrer(columns[t]),
                                  HasDomain(columns[t])))
    ELSE Cardinality(GeoCandidates(pre[t], force))

C10_Total(count) == count[PAGE_VIEWS] + count[EVENTS]

\* C10 as stated: a dry run with a row limit N that ends well has processed
\* min(N, available) records in total and left the tables unchanged.
C10_DryRunLimitTotal ==
    (dry_run /\ limit # NoLimit /\ Done /\ exit_code = "0") =>
        /\ C10_Total(n_processed)
              = Min(limit[1], C10_Total([t \in Tables |->
                                  IF t \in ScriptTables THEN C10_Available(t) ELSE 0]))
        /\ live = pre

\* C10, amended: a dry run with a row limit N that ends well has processed, in
\* each table it works on, min(N, available in that table) records when N >= 1
\* and every available record when N = 0, and left the tables unchanged.
C10_DryRunLimitPerTable ==
    (dry_run /\ limit # NoLimit /\ Done /\ exit_code = "0") =>
        /\ \A t \in ScriptTables :
              n_processed[t] = IF limit[1] >= 1
                               THEN Min(limit[1], C10_Available(t))
                               ELSE C10_Available(t)
        /\ live = pre

\* A dry run of the user-agent script with limit 1 that processed one record
\* of each table, two in total, where each table had two to offer.
C10_Witness ==
    /\ script = "ua" /\ dry_run /\ limit = <<1>> /\ Done /\ exit_code = "0"
    /\ n_processed[PAGE_VIEWS] = 1 /\ n_processed[EVENTS] = 1
    /\ C10_Available(PAGE_VIEWS) >= 2 /\ C10_Available(EVENTS) >= 2

\* --------------------------------------------------------------- C11
\* C11: a finished run in which an interrupt arrived, whether it ended the run
\* or was caught while a record was transformed, has exit code 130; in the
\* bulk scripts every table has none or all of the run's staged rows applied;
\* in the row-by-row script the table has none or all of the run's updates
\* applied.
C11_InterruptAllOrNothing ==
    (Done /\ (failure = "interrupt" \/ caught > 0)) =>
        /\ exit_code = "130"
        /\ script \in {"geo", "ua"} =>
              \A t \in ScriptTables : live[t] = pre[t] \/ live[t] = C5_AllApplied(t)
        /\ script = "pop" =>
              \/ live[PAGE_VIEWS] = pre[PAGE_VIEWS]
              \/ \A k \in 1 .. Len(C6_Records) : C6_Applied(C6_Records[k])

\* --------------------------------------------------------------- C12
\* C12: in the two bulk scripts no store connection is open while records
\* are transformed.
C12_NoConnectionWhileTransforming ==
    (script \in {"geo", "ua"} /\ pc = "transform") => conn # "open"

\* --------------------------------------------------------------- C14
\* C14: a finished run has exit code 130 exactly when it was interrupted, 1
\* exactly when an unrecoverable error occurred, and 0 exactly when it
\* completed with every database statement it issued having succeeded.
C14_ExitCodeTellsOutcome ==
    Done =>
        /\ exit_code = "130" <=> failure = "interrupt"
        /\ exit_code = "1" <=> failure \in {"dataset", "schema", "load", "database"}
        /\ exit_code = "0" =>
              /\ failure = "none" /\ caught = 0
              /\ (script = "pop" /\ ~dry_run) =>
                    log.updates[PAGE_VIEWS] = n_processed[PAGE_VIEWS]

\* --------------------------------------------------------------- C15
\* C15: when the geolocation reference database file is absent, the two
\* geolocation scripts never open a store connection and never read or write a
\* row; the run ends at startup with a non-zero exit code (1, or 130 when it
\* is interrupted first).
C15_MissingDatasetFailsAtStartup ==
    (script \in {"geo", "pop"} /\ ~geoip_present) =>
        /\ conn = "none"
        /\ pc \in {"start", "done"}
        /\ log = ZeroLog
        /\ n_available = ZeroCount /\ n_extracted = ZeroCount
        /\ n_processed = ZeroCount
        /\ export = <<>> /\ processed = <<>> /\ ~temp.exists
        /\ live = pre /\ work = live
        /\ Done => \/ exit_code = "1" /\ failure = "dataset"
                   \/ exit_code = "130" /\ failure = "interrupt"

\* A row-by-row run over a table with candidate rows, ended at startup by the
\* missing dataset.
C15_Witness ==
    /\ script = "pop" /\ ~geoip_present /\ Done
    /\ exit_code = "1" /\ failure = "dataset"
    /\ columns[PAGE_VIEWS] = AllColumns
    /\ C10_Available(PAGE_VIEWS) >= 1

\* --------------------------------------------------------------- C16
\* The identifier, raw input, derived output and recency columns of a script.
C16_Required ==
    IF script = "ua"
    THEN {"id", "user_agent", "browser_normalized", "os_normalized",
          "device_normalized", "is_bot", "timestamp"}
    ELSE {"id", "ip", "country", "timestamp"}

\* C16: when a table is absent or lacks a required column, no row is extracted
\* from it, the run never gets past the extraction of that table, leaves it
\* unmodified, and ends with a non-zero exit code.
C16_IncompleteSchemaFailsBeforeExtraction ==
    \A t \in ScriptTables :
        ~(C16_Required \subseteq columns[t]) =>
            /\ live[t] = pre[t]
            /\ n_extracted[t] = 0 /\ n_processed[t] = 0
            /\ tbl = t => pc \in {"start", "connect", "validate", "extract", "done"}
            /\ Done => exit_code # "0"

\* --------------------------------------------------------------- C17
\* The update phase of a bulk script: everything after the transform loop.
C17_Transformed == pc \in {"create_temp", "copy_from", "update", "commit", "return"}

\* C17: in the bulk scripts the k-th row of the processed file carries the
\* identifier of the k-th extracted record, the processed file is never longer
\* than the export, and once the transform loop is over the two have the same
\* length, which is also the processed count and the extracted count.
C17_OneResultPerRecord ==
    script \in {"geo", "ua"} =>
        /\ Len(processed) <= Len(export)
        /\ \A k \in 1 .. Len(processed) : processed[k].id = export[k].id
        /\ pc = "transform" => Len(processed) = n_processed[tbl]
        /\ C17_Transformed =>
              /\ Len(processed) = Len(export)
              /\ n_processed[tbl] = Len(export)
              /\ n_extracted[tbl] = Len(export)

C17_Witness ==
    /\ script \in {"geo", "ua"} /\ C17_Transformed
    /\ Len(export) >= 2 /\ Len(processed) = Len(export)
    /\ export[1].id # export[2].id

\* --------------------------------------------------------------- C18
\* for i in range(0, total_records, batch_size): the slices, one after another.
RECURSIVE C18_Visited(_, _, _)
C18_Visited(records, i, size) ==
    IF i >= Len(records) THEN <<>>
    ELSE Batch(records, i, size) \o C18_Visited(records, i + size, size)

\* The slices of a list, for every length up to BatchLen and every size from 1
\* to BatchLen, put end to end give the list back.
C18_SlicesCoverOnce ==
    \A n \in 0 .. BatchLen, size \in 1 .. BatchLen :
        LET records == [k \in 1 .. n |-> k]
        IN  C18_Visited(records, 0, size) = records

\* C18: in populate_ip_geolocation the records visited so far are the first
\* records of the extracted list, in order and each once; inside a batch the
\* visit count lies between the batch start and the batch end; when the loop is
\* over the processed count equals the number of extracted records.
C18_BatchingVisitsEachOnce ==
    /\ C18_SlicesCoverOnce
    /\ script = "pop" =>
        /\ Len(processed) <= Len(export)
        /\ \A k \in 1 .. Len(processed) : processed[k].id = export[k].id
        /\ \A j, k \in 1 .. Len(export) : j # k => export[j].id # export[k].id
        /\ pc = "batch" =>
              /\ n_processed[PAGE_VIEWS] = Len(processed)
              /\ batch_i <= Len(processed)
              /\ Len(processed) <= Min(batch_i + batch_size, Len(export))
        /\ pc = "return" =>
              /\ n_processed[PAGE_VIEWS] = Len(export)
              /\ n_extracted[PAGE_VIEWS] = Len(export)
              /\ Len(processed) = Len(export)

C18_Witness ==
    /\ script = "pop" /\ pc = "return"
    /\ batch_size = 1 /\ batch_i >= 2
    /\ Len(export) >= 2 /\ n_processed[PAGE_VIEWS] = Len(export)

\* --------------------------------------------------------------- C19
\* The reference dataset has no answer for a valid address (not found, or error).
C19_LookupFails(ip) == is_valid_ip(ip) /\ ReaderCountry(ip).kind # "ok"

\* The user-agent parser raises on a user agent that reaches it.
C19_ParseFails(ua) == Truthy(ua) /\ ~is_bot(ua) /\ ParseUA(ua).kind = "Exception"

\* No registrable domain is found in a referrer, or in a domain.
C19_ReferrerFails(ref) == Truthy(ref) /\ get_fld(ref) = NULL

C19_DomainFails(dom) == Truthy(dom) /\ get_fld(HttpUrl(DomainHost(dom))) = NULL

\* The fields of the k-th processed row that come from the geolocation lookup,
\* the user-agent parser and the referrer parser, when these failed.
C19_NullOnFailure(k) ==
    /\ script \in {"geo", "pop"} /\ C19_LookupFails(export[k].ip) =>
          processed[k].country = UNKNOWN_COUNTRY
    /\ script = "ua" /\ C19_ParseFails(export[k].user_agent) =>
          /\ processed[k].browser_normalized = ""
          /\ processed[k].os_normalized = ""
          /\ processed[k].device_normalized = ""
          /\ processed[k].is_bot = "false"
    /\ script = "ua" /\ has_referrer /\ C19_ReferrerFails(export[k].referrer) =>
          processed[k].referrer_normalized = ""

\* C19: a provider failure on one record never ends the run and degrades that
\* record's field to its sentinel or null: the country of a failed lookup is
\* "ZZ"; browser, OS and device of a failed parse are null and the bot flag
\* false; the normalized referrer and the normalized domain of a failed parse
\* are null; every extracted record has its processed row when the transform
\* loop is over, and every processed row is merged when the run returns.
C19_EveryFailureDegradesToNull ==
    /\ \A k \in 1 .. Len(processed) :
          /\ C19_NullOnFailure(k)
          /\ script = "ua" /\ has_domain_normalized
                /\ C19_DomainFails(export[k].domain) =>
                processed[k].domain_normalized = ""
    /\ script \in {"geo", "ua"} =>
          /\ C17_Transformed => Len(processed) = Len(export)
          /\ pc = "return" => live[tbl] = C5_AllApplied(tbl)

\* --------------------------------------------------------------- C20
\* The inputs of the lookup: nothing, the empty string, a string that is no
\* address, and the addresses of the fixture.
C20_Inputs == {NULL, "", "not-an-ip"} \cup ValidIPs

\* The dataset has a country code for the address.
C20_Resolved(ip) ==
    /\ ip \in ValidIPs
    /\ ReaderCountry(ip).kind = "ok"
    /\ ReaderCountry(ip).iso_code \notin {NULL, ""}

\* The lookup on every input.
C20_EveryInput ==
    \A ip \in C20_Inputs :
        /\ lookup_ip_location(ip) \notin {NULL, ""}
        /\ lookup_ip_location(ip) =
              IF C20_Resolved(ip) THEN ReaderCountry(ip).iso_code ELSE "ZZ"

\* C20: the geolocation lookup returns, for every input, a non-empty code: the
\* dataset's country code when the input is a valid address the dataset
\* resolves to a code, and "ZZ" otherwise (empty or invalid input, address not
\* found, no country code, lookup error); the country of every processed row of
\* the geolocation scripts is that code for the extracted address.
C20_LookupAlwaysReturnsCode ==
    /\ C20_EveryInput
    /\ script \in {"geo", "pop"} =>
          \A k \in 1 .. Len(processed) :
              /\ processed[k].country \notin {NULL, ""}
              /\ processed[k].country =
                    IF C20_Resolved(export[k].ip)
                    THEN ReaderCountry(export[k].ip).iso_code ELSE "ZZ"

\* An invalid address processed to "ZZ" next to a resolved one.
C20_Witness ==
    /\ script \in {"geo", "pop"}
    /\ \E j, k \in 1 .. Len(processed) :
          /\ export[j].ip = "not-an-ip" /\ processed[j].country = "ZZ"
          /\ export[k].ip = "8.8.8.8" /\ processed[k].country = "US"

\* --------------------------------------------------------------- C21
\* C21: with the bot lists a run starts with (no step of a run changes them),
\* for every user agent of the fixture that is a bot, one on which the parser
\* would raise included, normalize_user_agent returns browser, OS and device
\* null and the bot flag true, whatever the parser would have said; and at
\* every point of a run the processed row of every extracted bot has the three
\* fields empty and the flag "true".
C21_BotsGetNullFields ==
    /\ pc = "start" =>
          \A ua \in UserAgents :
              is_bot(ua) => normalize_user_agent(ua) = UAResult(NULL, NULL, NULL, TRUE)
    /\ script = "ua" =>
          \A k \in 1 .. Len(processed) :
              is_bot(export[k].user_agent) =>
                  /\ processed[k].browser_normalized = ""
                  /\ processed[k].os_normalized = ""
                  /\ processed[k].device_normalized = ""
                  /\ processed[k].is_bot = "true"

\* A crawler the parser knows a browser for has been transformed.
C21_Witness ==
    /\ script = "ua"
    /\ \E k \in 1 .. Len(processed) :
          /\ is_bot(export[k].user_agent)
          /\ ParseUA(export[k].user_agent).kind = "ok"
          /\ Truthy(ParseUA(export[k].user_agent).browser)
          /\ processed[k].is_bot = "true"

\* --------------------------------------------------------------- C22
C22_DeviceClasses == {"Mobile", "Tablet", "Desktop"}

\* Original statement: every user agent that is not a bot, whatever it is, has
\* the bot flag false and a device among Mobile, Tablet and Desktop.
C22_EveryNonBotHasDeviceClass ==
    script = "ua" =>
        \A k \in 1 .. Len(processed) :
            ~is_bot(export[k].user_agent) =>
                /\ processed[k].is_bot = "false"
                /\ processed[k].device_normalized \in C22_DeviceClasses

\* The parser handles the user agent.
C22_Parsed(ua) == Truthy(ua) /\ ParseUA(ua).kind = "ok"

\* C22: a user agent that is not a bot always has the bot flag false; its
\* device is one of Mobile, Tablet, Desktop when it is non-empty and the parser
\* does not raise on it, and null when it is empty or the parser raises. This
\* holds of every user agent of the fixture with the bot lists a run starts
\* with (no step of a run changes them), and of every processed row at every
\* point of a run.
C22_NonBotDeviceClass ==
    /\ pc = "start" =>
          \A ua \in UserAgents \cup {NULL, ""} :
              ~is_bot(ua) =>
                  LET result == normalize_user_agent(ua) IN
                  /\ result.is_bot = FALSE
                  /\ IF C22_Parsed(ua)
                     THEN result.device \in C22_DeviceClasses
                     ELSE result.device = NULL
    /\ script = "ua" =>
          \A k \in 1 .. Len(processed) :
              ~is_bot(export[k].user_agent) =>
                  /\ processed[k].is_bot = "false"
                  /\ IF C22_Parsed(export[k].user_agent)
                     THEN processed[k].device_normalized \in C22_DeviceClasses
                     ELSE processed[k].device_normalized = ""

\* A phone visit transformed to Mobile next to an unknown client transformed to
\* Desktop or a visit without device.
C22_Witness ==
    /\ script = "ua"
    /\ \E j, k \in 1 .. Len(processed) :
          /\ ~is_bot(export[j].user_agent) /\ processed[j].device_normalized = "Mobile"
          /\ ~is_bot(export[k].user_agent)
          /\ processed[k].device_normalized \in {"Desktop", ""}

\* --------------------------------------------------------------- C23
\* The two tiers, each on its own.
C23_Literal(ua) == \E signature \in CUSTOM_BOT_SIGNATURES : SignatureIn(signature, ua)

C23_Corpus(ua) == \E pattern \in MATOMO_BOT_PATTERNS : PatternSearch(pattern, ua)

\* The classification with the pattern corpus consulted first.
C23_CorpusFirst(ua) ==
    IF ~Truthy(ua) THEN FALSE
    ELSE IF C23_Corpus(ua) THEN TRUE
    ELSE IF C23_Literal(ua) THEN TRUE
    ELSE FALSE

\* C23: is_bot is true exactly of the non-empty user agents that contain a
\* literal signature or match a pattern of the corpus, gives what the
\* classification with the tiers swapped gives, and is false of the empty user
\* agent; the fixture has a user agent for each of: literal only, corpus only,
\* both, neither. The classification is checked on the fixture with the bot
\* lists a run starts with (no step of a run changes them), and on every
\* processed row at every point of a run.
C23_BotIsEitherTier ==
    /\ pc = "start" =>
          /\ \A ua \in UserAgents \cup {NULL, ""} :
                LET flagged == is_bot(ua) IN
                /\ flagged <=> (Truthy(ua) /\ (C23_Literal(ua) \/ C23_Corpus(ua)))
                /\ flagged = C23_CorpusFirst(ua)
          /\ ~is_bot(NULL) /\ ~is_bot("")
    /\ script = "ua" =>
          \A k \in 1 .. Len(processed) :
              processed[k].is_bot = "true" <=>
                  (C23_Literal(export[k].user_agent) \/ C23_Corpus(export[k].user_agent))

\* A crawler only the corpus knows and a client only the literal list knows have
\* both been flagged; the fixture also has a user agent of both tiers and one of
\* neither.
C23_Witness ==
    /\ script = "ua"
    /\ \E j, k \in 1 .. Len(processed) :
          /\ C23_Corpus(export[j].user_agent) /\ ~C23_Literal(export[j].user_agent)
          /\ processed[j].is_bot = "true"
          /\ C23_Literal(export[k].user_agent) /\ ~C23_Corpus(export[k].user_agent)
          /\ processed[k].is_bot = "true"
    /\ \E ua \in UserAgents : C23_Literal(ua) /\ C23_Corpus(ua)
    /\ \E ua \in UserAgents : ~C23_Literal(ua) /\ ~C23_Corpus(ua)

\* --------------------------------------------------------------- C24
\* The raw fields a script reads from a table with the given columns.
C24_RawFields(cols) ==
    IF script = "ua"
    THEN {"user_agent"} \cup (IF HasReferrer(cols) THEN {"referrer"} ELSE {})
                        \cup (IF HasDomain(cols) THEN {"domain"} ELSE {})
    ELSE {"ip"}

\* The derived fields that correspond to a raw field.
C24_Derived(raw) ==
    CASE raw = "ip" -> {"country"}
      [] raw = "user_agent" -> BotSensitiveColumns
      [] raw = "referrer" -> {"referrer_normalized"}
      [] raw = "domain" -> {"domain_normalized"}

\* A raw field of the row is populated and a derived field of it is null.
C24_Pending(row, cols) ==
    \E raw \in C24_RawFields(cols) :
        row[raw] # NULL /\ \E d \in C24_Derived(raw) : row[d] = NULL

C24_Populated(row, cols) == \E raw \in C24_RawFields(cols) : row[raw] # NULL

\* The rows the original statement selects.
C24_SelectedAsStated(t) ==
    {id \in Ids : IF force THEN C24_Populated(pre[t][id], columns[t])
                  ELSE C24_Pending(pre[t][id], columns[t])}

\* Original statement, for a run without a row limit: the extracted rows are
\* the rows with a populated raw field (force) or with a populated raw field
\* and a null derived field of it (incremental).
C24_ExtractsPopulatedRowsOnly ==
    (export # <<>> /\ ~LimitSet(limit)) => SeqIds(export) = C24_SelectedAsStated(tbl)

\* The rows the scripts select: as stated, except that the forced user-agent
\* run selects every row.
C24_Selected(t) ==
    IF force /\ script = "ua" THEN Ids ELSE C24_SelectedAsStated(t)

C24_Count(t) ==
    IF LimitSet(limit) THEN Min(limit[1], Cardinality(C24_Selected(t)))
    ELSE Cardinality(C24_Selected(t))

\* C24: the extracted rows are among the selected rows: in incremental mode the
\* rows with a populated raw field and a null derived field of it, in force mode
\* of the geolocation scripts the rows with an ip, in force mode of the
\* user-agent script every row. Without a row limit (or with limit 0) they are
\* all of them; with a limit N >= 1 they are the min(N, selected) most recent;
\* a run that ends well has extracted that many rows of each of its tables.
C24_ExtractsSelectedRows ==
    /\ export # <<>> =>
          LET selected == C24_Selected(tbl)
              extracted == SeqIds(export)
              count == IF LimitSet(limit) THEN Min(limit[1], Cardinality(selected))
                       ELSE Cardinality(selected)
          IN  /\ extracted \subseteq selected
              /\ Cardinality(extracted) = count
              /\ Len(export) = count
              /\ \A a \in extracted, b \in selected \ extracted :
                    Timestamp(a) > Timestamp(b)
    /\ (Done /\ exit_code = "0") =>
          \A t \in ScriptTables : n_extracted[t] = C24_Count(t)

\* An incremental user-agent run without limit that extracted a row with a
\* browser already stored and left a complete row out.
C24_Witness ==
    /\ script = "ua" /\ ~force /\ ~LimitSet(limit) /\ pc = "transform"
    /\ \E id \in SeqIds(export) : pre[tbl][id].browser_normalized # NULL
    /\ \E id \in Ids : id \notin SeqIds(export)

\* --------------------------------------------------------------- C25
\* A row flagged as a bot holds no browser, OS or device.
C25_NoBotFields(row) ==
    row.is_bot = "true" => \A c \in BotSensitiveColumns : row[c] = NULL

\* The rows of a table the run extracts, stages and merges.
C25_MergedIds(t) ==
    SeqIds(UaExport(pre[t], force, limit, HasReferrer(columns[t]), HasDomain(columns[t])))

\* C25: in the user-agent script, once a run has committed its merge of a
\* table, every row of it the run merged holds no browser, OS or device when
\* its bot flag is true; and no run takes this away from a row that had it when
\* the run started, so that it stays with a merged row through later runs.
C25_NoFieldsForBots ==
    script = "ua" =>
        \A t \in Tables :
            /\ (log.commits[t] = 1 \/ live[t] # pre[t]) =>
                  \A id \in C25_MergedIds(t) : C25_NoBotFields(live[t][id])
            /\ \A id \in Ids :
                  C25_NoBotFields(pre[t][id]) => C25_NoBotFields(live[t][id])

\* A committed merge flagged a row as a bot and cleared the browser stored for it.
C25_Witness ==
    /\ script = "ua" /\ log.commits[PAGE_VIEWS] = 1
    /\ \E id \in C25_MergedIds(PAGE_VIEWS) :
          /\ pre[PAGE_VIEWS][id].browser_normalized # NULL
          /\ pre[PAGE_VIEWS][id].is_bot # "true"
          /\ live[PAGE_VIEWS][id].is_bot = "true"
          /\ live[PAGE_VIEWS][id].browser_normalized = NULL

\* --------------------------------------------------------------- C26
\* The step ends the run with exit code 1 or 130.
C26_ExceptionalExit == pc # "done" /\ pc' = "done" /\ exit_code' # "0"

\* C26: when a run has ended, on any path (completion, nothing to extract, dry
\* run, exception at any step, failed reconnect, interrupt), its connection is
\* closed or was never opened, nothing of an open transaction or temporary
\* table is left, and a run never opens a connection while one is open; the
\* step that ends a run exceptionally commits nothing: the live tables are
\* what they were before it.
C26_ConnectionsAlwaysReleased ==
    /\ [](Done => /\ conn \in {"none", "closed"}
                  /\ work = live /\ ~txn_aborted /\ temp = NoTemp)
    /\ [](pc \in {"start", "connect"} => conn \in {"none", "closed"})
    /\ [](conn = "none" => log.connects = 0)
    /\ [][C26_ExceptionalExit => live' = live /\ conn' \in {"none", "closed"}]_vars

\* A user-agent run that failed on its second table after merging the first:
\* both connections of the first table and the one of the second were opened,
\* none is open.
C26_Witness ==
    /\ script = "ua" /\ Done /\ failure = "database"
    /\ live[PAGE_VIEWS] # pre[PAGE_VIEWS]
    /\ conn = "closed"

\* --------------------------------------------------------------- C27
\* Loading a source in this condition cannot go through: the file is missing,
\* cannot be opened, is not YAML, or holds a value the loader's code raises on.
C27_Unloadable(file) ==
    \/ file.kind \in {"absent", "unreadable", "bad_yaml", "empty", "scalars", "null_key"}
    \/ file.kind = "mapping" /\ NON_STRING \in file.entries

\* The source parses but holds nothing a list can be made of.
C27_NothingUsable(file) ==
    \/ file.kind = "no_key"
    \/ file.kind = "list" /\ file.entries # {} /\ file.entries \subseteq {NO_REGEX, "("}

C27_Imported == pc \notin {"import_matomo", "import_custom"}

\* Original statement: a source that is absent, unreadable or malformed loads
\* as the single fallback 'bot'.
C27_DefectiveSourceGivesFallback ==
    C27_Imported =>
        /\ (C27_Unloadable(bots_yml) \/ C27_NothingUsable(bots_yml))
              => matomo_bot_patterns = {"bot"}
        /\ (C27_Unloadable(custom_bots_yml) \/ C27_NothingUsable(custom_bots_yml))
              => custom_bot_signatures = {"bot"}

\* The lists a source that loads gives.
C27_Patterns(file) == file.entries \cap {"googlebot", "bingbot"}

C27_Signatures(file) ==
    (IF "curl" \in file.entries THEN {"curl"} ELSE {})
    \cup (IF "Python-Requests" \in file.entries THEN {"python-requests"} ELSE {})

\* C27: the import never fails: each load step goes on to the next step with
\* the run not ended. A source that is missing, cannot be opened, is not YAML or
\* makes the loader's code raise loads as the single fallback 'bot'; a source
\* that parses loads as its usable entries (the regexes that compile, the
\* signatures lower-cased), which is the empty list when it has none. Every
\* later record is classified: with both lists the fallback, it is a bot
\* exactly when its user agent contains 'bot'.
C27_LoadFallsBack ==
    /\ [](pc # "import_matomo" =>
            matomo_bot_patterns = IF C27_Unloadable(bots_yml) THEN {"bot"}
                                  ELSE C27_Patterns(bots_yml))
    /\ [](C27_Imported =>
            custom_bot_signatures = IF C27_Unloadable(custom_bots_yml) THEN {"bot"}
                                    ELSE C27_Signatures(custom_bots_yml))
    /\ [](exit_code \in {"running", "0"})
    /\ [](\A k \in 1 .. Len(processed) :
            /\ processed[k].is_bot \in {"true", "false"}
            /\ (matomo_bot_patterns = {"bot"} /\ custom_bot_signatures = {"bot"}) =>
                  (processed[k].is_bot = "true"
                      <=> "bot" \in LowerWords(export[k].user_agent)))
    /\ [][/\ pc = "import_matomo" => pc' = "import_custom" /\ exit_code' = "running"
          /\ pc = "import_custom" => pc' = "start" /\ exit_code' = "running"]_vars

\* With one source missing and the other not YAML, a crawler was flagged and a
\* command-line client was not.
C27_Witness ==
    /\ bots_yml.kind = "absent" /\ custom_bots_yml.kind = "bad_yaml"
    /\ matomo_bot_patterns = {"bot"} /\ custom_bot_signatures = {"bot"}
    /\ \E j, k \in 1 .. Len(processed) :
          /\ processed[j].is_bot = "true"
          /\ processed[k].is_bot = "false" /\ export[k].user_agent = UA_CURL

\* --------------------------------------------------------------- C28
C28_RawColumns == {"ip", "user_agent", "referrer", "domain"}

\* The derived columns a script writes.
C28_Written ==
    IF script = "ua"
    THEN BotSensitiveColumns \cup {"referrer_normalized", "domain_normalized", "is_bot"}
    ELSE {"country"}

\* The rows of a table this run extracts.
C28_Extracted(t) ==
    IF script = "ua" THEN C25_MergedIds(t)
    ELSE IF t = PAGE_VIEWS THEN SeqIds(GeoExport(pre[t], force, limit))
    ELSE {}

\* A table differs from what it was at the start of the run only in the
\* columns the script writes, and only in extracted rows.
C28_Framed(tables) ==
    \A t \in Tables :
        tables[t] # pre[t] =>
            LET extracted == C28_Extracted(t) IN
            \A id \in Ids :
                tables[t][id] # pre[t][id] =>
                    /\ id \in extracted
                    /\ \A c \in DOMAIN BlankRow :
                          tables[t][id][c] # pre[t][id][c] =>
                              c \in C28_Written /\ c \notin C28_RawColumns

\* C28: at every point of a run, the committed tables and the tables as the
\* open transaction sees them differ from the tables at the start of the run
\* only in the derived columns of the script (country; or the normalized
\* columns and is_bot) and only in rows the run extracted; raw columns and rows
\* outside the extracted set are unchanged.
C28_RunFrame == [](C28_Framed(live) /\ C28_Framed(work))

\* A limited run that changed the extracted row and left another row alone that
\* the inclusion predicate selects too.
C28_Witness ==
    /\ Done /\ exit_code = "0" /\ LimitSet(limit)
    /\ \E t \in ScriptTables :
          /\ \E id \in C28_Extracted(t) : live[t][id] # pre[t][id]
          /\ \E id \in C24_Selected(t) \ C28_Extracted(t) : live[t][id] = pre[t][id]

\* --------------------------------------------------------------- C29
C29_Derived == BotSensitiveColumns \cup {"country", "referrer_normalized", "domain_normalized", "is_bot"}

\* Original statement: in incremental mode a derived field that was non-null
\* before the run holds the same value at every later point of it.
C29_NonNullFieldsKeepTheirValue ==
    ~force =>
        \A t \in Tables, id \in Ids, c \in C29_Derived :
            pre[t][id][c] # NULL => live[t][id][c] = pre[t][id][c]

\* C29: in incremental mode the geolocation scripts never change a country that
\* was non-null before the run. The user-agent script changes a derived field
\* that was non-null before the run only in a row it extracted and only in two
\* ways: browser, OS and device become null in a row the run flags as a bot;
\* any other change replaces the value by a non-empty value (the staged one),
\* never by null or the empty string.
C29_NoGoodValueLostToEmpty ==
    (~force /\ live # pre) =>
        \A t \in Tables, id \in Ids :
            live[t][id] # pre[t][id] =>
                \A c \in C29_Derived :
                    (pre[t][id][c] # NULL /\ live[t][id][c] # pre[t][id][c]) =>
                        /\ script = "ua"
                        /\ id \in C28_Extracted(t)
                        /\ \/ /\ c \in BotSensitiveColumns
                              /\ live[t][id].is_bot = "true"
                              /\ live[t][id][c] = NULL
                           \/ Truthy(live[t][id][c])

\* An incremental run cleared the browser stored for a client it found to be a
\* bot and replaced a stored referrer domain by the one it computed.
C29_Witness ==
    /\ script = "ua" /\ ~force /\ Done /\ exit_code = "0"
    /\ \E id \in Ids :
          /\ pre[PAGE_VIEWS][id].browser_normalized # NULL
          /\ live[PAGE_VIEWS][id].browser_normalized = NULL
          /\ live[PAGE_VIEWS][id].is_bot = "true"
    /\ \E id \in Ids :
          /\ pre[PAGE_VIEWS][id].referrer_normalized = "old.example"
          /\ live[PAGE_VIEWS][id].referrer_normalized = "example.com"

\* --------------------------------------------------------------- C30
C30_OptionalRaw(c) == c \in {"referrer", "domain"}

C30_OptionalDerived(c) == c \in {"referrer_normalized", "domain_normalized"}

\* A row only its referrer makes a candidate, and one only its domain does.
C30_ReferrerPending ==
    [BlankRow EXCEPT !.referrer = REF_EXAMPLE]

C30_DomainPending ==
    [BlankRow EXCEPT !.domain = DOM_EXAMPLE]

\* The six places agree on the optional fields for one combination.
C30_Agree(hr, hd) ==
    LET derived == Opt(hr, "referrer_normalized") \o Opt(hd, "domain_normalized") IN
    /\ SelectSeq(select_columns(hr, hd), C30_OptionalRaw)
          = Opt(hr, "referrer") \o Opt(hd, "domain")
    /\ UaWhere(C30_ReferrerPending, FALSE, hr, hd) = hr
    /\ UaWhere(C30_DomainPending, FALSE, hr, hd) = hd
    /\ SelectSeq(output_columns(hr, hd), C30_OptionalDerived) = derived
    /\ SelectSeq(temp_columns(hr, hd), C30_OptionalDerived) = derived
    /\ SelectSeq(copy_columns(hr, hd), C30_OptionalDerived) = derived
    /\ SelectSeq(set_columns(hr, hd), C30_OptionalDerived) = derived
    /\ output_columns(hr, hd) = temp_columns(hr, hd)
    /\ temp_columns(hr, hd) = copy_columns(hr, hd)
    /\ set_columns(hr, hd) = Tail(copy_columns(hr, hd))

\* The six places agree for each of the four combinations.
C30_AgreeAll == \A hr, hd \in BOOLEAN : C30_Agree(hr, hd)

\* C30: for each of the four combinations of (referrer pair present, domain
\* pair present) the export projection, the incremental predicate, the
\* processed row, the staging table, the COPY column list and the SET clauses
\* hold the same optional fields in the same order. In a run, the statements
\* name no optional column the table lacks, the rows of the export, of the
\* processed file and of the staging table have exactly the fields of that
\* combination, an optional column the table lacks stays empty, and a table
\* that has the required columns never makes the run fail on its schema.
C30_SchemaAdaptationConsistent ==
    /\ C30_AgreeAll
    /\ script = "ua" =>
          /\ \A c \in UaExtractColumns(force, has_referrer, has_domain_normalized)
                      \cup UaUpdateColumns(has_referrer, has_domain_normalized) :
                (C30_OptionalRaw(c) \/ C30_OptionalDerived(c)) => c \in columns[tbl]
          /\ \A k \in 1 .. Len(export) :
                DOMAIN export[k]
                    = Range(select_columns(has_referrer, has_domain_normalized))
          /\ \A k \in 1 .. Len(processed) :
                DOMAIN processed[k]
                    = Range(output_columns(has_referrer, has_domain_normalized))
          /\ \A k \in 1 .. Len(temp.rows) :
                DOMAIN temp.rows[k]
                    = Range(temp_columns(has_referrer, has_domain_normalized))
          /\ \A t \in Tables, id \in Ids :
                \A c \in {"referrer", "domain", "referrer_normalized", "domain_normalized"} :
                    c \notin columns[t] => live[t][id][c] = NULL /\ work[t][id][c] = NULL
          /\ failure = "schema" =>
                \E t \in Tables : ~(C16_Required \subseteq columns[t])

\* The merge of a table that has neither optional pair is executed, after the
\* merge of a table that has both.
C30_Witness ==
    /\ script = "ua" /\ pc = "return" /\ tbl = EVENTS
    /\ ~has_referrer /\ ~has_domain_normalized
    /\ HasReferrer(columns[PAGE_VIEWS]) /\ HasDomain(columns[PAGE_VIEWS])
    /\ live[EVENTS] # pre[EVENTS]
    /\ live[PAGE_VIEWS] # pre[PAGE_VIEWS]

\* --------------------------------------------------------------- C31
\* The pipeline of the first table has returned to the driver: it found nothing
\* to do, or reported its dry run, or committed its merge.
C31_FirstReturned ==
    \/ n_extracted[PAGE_VIEWS] = 0 /\ live[PAGE_VIEWS] = pre[PAGE_VIEWS]
    \/ /\ dry_run
       /\ n_processed[PAGE_VIEWS] = n_extracted[PAGE_VIEWS]
       /\ live[PAGE_VIEWS] = pre[PAGE_VIEWS]
    \/ /\ ~dry_run
       /\ log.updates[PAGE_VIEWS] = 1 /\ log.commits[PAGE_VIEWS] = 1
       /\ live[PAGE_VIEWS] = C5_AllApplied(PAGE_VIEWS)

\* Nothing of the second table has been read or written.
C31_SecondUntouched ==
    /\ live[EVENTS] = pre[EVENTS] /\ work[EVENTS] = pre[EVENTS]
    /\ n_available[EVENTS] = 0 /\ n_extracted[EVENTS] = 0 /\ n_processed[EVENTS] = 0
    /\ log.updates[EVENTS] = 0 /\ log.commits[EVENTS] = 0

\* The step on which the pipeline of table t ends the run abnormally.
C31_Fails(t) ==
    script = "ua" /\ ~Done /\ tbl = t /\ Done' /\ failure' # "none"

\* C31: the user-agent driver works on metrics_page_views and then on
\* metrics_events, one pipeline after the other. While the first pipeline runs
\* the second table has not been read or written, and the second pipeline
\* starts only when the first has returned (nothing to do, dry run reported, or
\* merge committed). A run the first pipeline ends abnormally leaves the
\* second table as it was; a run the second pipeline ends abnormally leaves the
\* first table as the first pipeline committed it (merged, unless it was a dry
\* run or had nothing to do); and a pipeline that raises in either table makes
\* the run return exit code 1, with the table it was working on as it was at
\* the start of the run.
C31_PerTablePipelines ==
    /\ [](script = "ua" /\ ~Done /\ tbl = PAGE_VIEWS => C31_SecondUntouched)
    /\ [](script = "ua" /\ ~Done /\ tbl = EVENTS => C31_FirstReturned)
    /\ [][C31_Fails(PAGE_VIEWS) =>
              /\ C31_SecondUntouched
              /\ live'[EVENTS] = pre'[EVENTS]
              /\ (failure' # "interrupt" =>
                     exit_code' = "1" /\ live'[PAGE_VIEWS] = pre'[PAGE_VIEWS])]_vars
    /\ [][C31_Fails(EVENTS) =>
              /\ C31_FirstReturned
              /\ live'[PAGE_VIEWS] = live[PAGE_VIEWS]
              /\ (failure' # "interrupt" =>
                     exit_code' = "1" /\ live'[EVENTS] = pre'[EVENTS])]_vars

\* A run that merged the first table, then failed on a database call while the
\* second table had candidates: exit code 1, the first merge committed, the
\* second table as it was.
C31_Witness ==
    /\ script = "ua" /\ Done /\ exit_code = "1" /\ failure = "database"
    /\ live[PAGE_VIEWS] # pre[PAGE_VIEWS]
    /\ live[PAGE_VIEWS] = C5_AllApplied(PAGE_VIEWS)
    /\ UaCandidates(pre[EVENTS], force, HasReferrer(columns[EVENTS]),
                    HasDomain(columns[EVENTS])) # {}
    /\ live[EVENTS] = pre[EVENTS]

\* --------------------------------------------------------------- C32
\* What the load makes of a value the transformer wrote, as the claim has it.
C32_Loaded(v) == IF v = "" THEN NULL ELSE v

\* C32: in the user-agent script the load of the processed file does not fail
\* on what a field holds, and once it is done the staging table has one row per
\* transformed record, with the record's id and, in every column, the value
\* the transformer produced (NULL for the empty string), a value with a comma,
\* a double quote or a backslash included.
C32_StagingRoundTrip ==
    script = "ua" =>
        /\ failure # "load"
        /\ pc \in {"update", "commit", "return"} =>
              /\ Len(temp.rows) = Len(processed)
              /\ \A k \in 1 .. Len(temp.rows) :
                    \A c \in DOMAIN temp.rows[k] :
                        temp.rows[k][c] =
                            IF c = "id" THEN processed[k][c]
                            ELSE C32_Loaded(processed[k][c])

\* --------------------------------------------------------------- C33
\* The limit is a number N >= 1.
C33_Ceiling(lim) == lim # NoLimit /\ lim[1] >= 1

\* The rows of the table being worked on that match the inclusion predicate of
\* the script.
C33_Matching ==
    IF script = "ua"
    THEN UaCandidates(pre[tbl], force, has_referrer, has_domain_normalized)
    ELSE GeoCandidates(pre[tbl], force)

\* The ceiling on every set of matching rows and every limit of the fixture.
C33_EveryLimit ==
    \A S \in SUBSET Ids, lim \in Limits :
        LET ordered == OrderByTimestampDesc(S)
            cut == ApplyLimit(ordered, lim)
        IN  /\ \A k \in 1 .. Len(ordered) - 1 :
                  Timestamp(ordered[k]) > Timestamp(ordered[k + 1])
            /\ IF C33_Ceiling(lim)
               THEN /\ Len(cut) <= lim[1]
                    /\ Len(cut) = Min(lim[1], Cardinality(S))
                    /\ \A k \in 1 .. Len(cut) : cut[k] = ordered[k]
               ELSE cut = ordered /\ Len(cut) = Cardinality(S)

\* C33: in the three scripts the row ceiling is applied only when the limit is
\* a number other than 0. With a limit N >= 1 the extraction returns
\* min(N, matching) rows, never more than N, and they are the most recent of
\* the matching rows, most recent first; with no limit or with limit 0 it
\* returns every row that matches the inclusion predicate, most recent first.
C33_CeilingOnlyWhenNonZero ==
    /\ C33_EveryLimit
    /\ \A t \in Tables :
          n_extracted[t] = IF C33_Ceiling(limit) THEN Min(limit[1], n_available[t])
                           ELSE n_available[t]
    /\ export # <<>> =>
          LET ordered == OrderByTimestampDesc(C33_Matching) IN
          /\ \A k \in 1 .. Len(export) : export[k].id = ordered[k]
          /\ IF C33_Ceiling(limit)
             THEN Len(export) <= limit[1]
                  /\ Len(export) = Min(limit[1], Len(ordered))
             ELSE Len(export) = Len(ordered) /\ SeqIds(export) = C33_Matching

\* A run of the row-by-row script with limit 0 that extracted every matching
\* row, more than one.
C33_Witness ==
    /\ script = "pop" /\ limit = <<0>>
    /\ Len(export) >= 2
    /\ SeqIds(export) = C33_Matching

====
